---- MODULE Spec2Model ----
(***************************************************************************)
(* Model of the multi-symbol grid engine of msx_grid                        *)
(* (src/msx/grid.py GridStrategy, src/app.py control surface) running      *)
(* against the venue adapter (src/msx/exchange.py MsxExchange).            *)
(*                                                                         *)
(* Numbers: prices, volumes and money are integers (fixed point, products  *)
(* and quotients round down); grid_spacing is held in thousandths, so the  *)
(* source's 1.0 is SpacingScale.  Python's None is NoneNum for a number    *)
(* and NoOrder for an order reference; an OrderInfo whose id is None (the  *)
(* failed-order value of create_order) has id = NoneId.                    *)
(***************************************************************************)
EXTENDS Integers, Sequences, FiniteSets, TLC

VARIABLES
    symbols,      \* GridStrategy.symbols: symbol -> strategy data
    keys,         \* GridStrategy.symbols: its keys in insertion order
    cfgFile,      \* data/{pos_id}.json: position id -> configuration snapshot
    csvFile,      \* data/orders/{pos_id}_orders.csv: position id -> rows
    openOrders,   \* venue: resting limit orders
    closedOrders, \* venue: closed orders, most recently closed first
    pos,          \* venue: symbol -> position (id, size)
    nextOrderId,  \* venue: next order id, also its creation timestamp
    nextPosId,    \* venue: next position id
    faults,       \* operations in which an adapter call has failed so far
    restarts,     \* process restarts so far
    loop,         \* GridStrategy._run_task: the state of the run() coroutine
    pending,      \* run(): the symbols the current pass has yet to visit
    inflight,     \* run(): the check_order call suspended in an adapter call
    tradingCache, \* GridStrategy._trading_status_cache
    now,          \* the wall clock, in seconds
    starting,     \* start(): the calls suspended in an adapter call
    ev            \* the last operation and what it returned / called

vars == <<symbols, keys, cfgFile, csvFile, openOrders, closedOrders, pos,
          nextOrderId, nextPosId, faults, restarts, loop, pending, inflight,
          tradingCache, now, starting, ev>>

----------------------------------------------------------------------------
(* Bounds of the model *)

MaxOrders == 4      \* orders the venue accepts in one behaviour
MaxPos == 2         \* position ids the venue assigns in one behaviour
MaxFaults == 1      \* operations in which adapter calls fail, and failures in each
MaxRestarts == 1    \* process restarts in one behaviour

(* Program constants *)

SpacingScale == 1000    \* grid_spacing 1.0
MaxLeverage == 100
MinOrderSize == 10
NoneNum == -1
NoneId == 0

Symbols == {"A", "B"}

(* the order in which fetch_positions() lists the positions of the account *)
SymbolOrder == <<"A", "B">>

NoOrder == [id |-> -1, price |-> 0, volume |-> 0]

Max(a, b) == IF a >= b THEN a ELSE b
Min(a, b) == IF a <= b THEN a ELSE b

Range(q) == {q[i] : i \in 1..Len(q)}

RECURSIVE SeqMax(_)
SeqMax(ts) == IF ts = <<>> THEN 0 ELSE Max(Head(ts), SeqMax(Tail(ts)))

RECURSIVE SelectSeqBy(_, _)
(* the subsequence of q whose elements are in the set keep *)
SelectSeqBy(q, keep) ==
    IF q = <<>> THEN <<>>
    ELSE IF Head(q) \in keep THEN <<Head(q)>> \o SelectSeqBy(Tail(q), keep)
         ELSE SelectSeqBy(Tail(q), keep)

RECURSIVE SortByTimestamp(_)
(* list.sort(key=timestamp): stable insertion of the head into the sorted tail *)
SortByTimestamp(q) ==
    IF q = <<>> THEN <<>>
    ELSE LET rest == SortByTimestamp(Tail(q))
             h == Head(q)
             before == {i \in 1..Len(rest) : rest[i].timestamp < h.timestamp}
             k == Cardinality(before)
         IN SubSeq(rest, 1, k) \o <<h>> \o SubSeq(rest, k + 1, Len(rest))

----------------------------------------------------------------------------
(* Configurations offered to start(): the parameter choices cover a valid  *)
(* long and a valid short grid and one violation of each validated field.  *)

ParamChoices ==
    { [min_price |-> 2, max_price |-> 10, direction |-> "long",
       grid_spacing |-> 500, investment_amount |-> 40, leverage |-> 2],
      [min_price |-> 2, max_price |-> 10, direction |-> "short",
       grid_spacing |-> 500, investment_amount |-> 40, leverage |-> 2],
      [min_price |-> 10, max_price |-> 10, direction |-> "long",
       grid_spacing |-> 500, investment_amount |-> 40, leverage |-> 2],
      [min_price |-> 2, max_price |-> 10, direction |-> "long",
       grid_spacing |-> 0, investment_amount |-> 40, leverage |-> 2],
      [min_price |-> 2, max_price |-> 10, direction |-> "long",
       grid_spacing |-> 1000, investment_amount |-> 40, leverage |-> 2],
      [min_price |-> 2, max_price |-> 10, direction |-> "long",
       grid_spacing |-> 500, investment_amount |-> 40, leverage |-> 0],
      [min_price |-> 2, max_price |-> 10, direction |-> "long",
       grid_spacing |-> 500, investment_amount |-> 40, leverage |-> 101] }

Configs ==
    { [symbol |-> s, min_price |-> p.min_price, max_price |-> p.max_price,
       direction |-> p.direction, grid_spacing |-> p.grid_spacing,
       investment_amount |-> p.investment_amount, leverage |-> p.leverage] :
      s \in Symbols, p \in ParamChoices }

(* a configuration start() admits whose each_order_size * min_price is     *)
(* below min_order_size: 40 * 0.5 / 8 * 2 = 5 *)
LowNotionalConfigs ==
    { [symbol |-> s, min_price |-> 2, max_price |-> 10, direction |-> "long",
       grid_spacing |-> 500, investment_amount |-> 20, leverage |-> 2] :
      s \in Symbols }

NoCfg == [symbol |-> "", min_price |-> 0, max_price |-> 0, direction |-> "",
          grid_spacing |-> 0, investment_amount |-> 0, leverage |-> 0]

TickerPrice == 4        \* the last price the venue reports

(* The adapter calls that can fail, one name per call site. *)
FaultKinds ==
    { "init_orders", "init_cancel", "init_ticker", "init_positions",
      "build_market", "build_positions", "persist_positions", "init_his",
      "buy_rejected", "buy_error", "sell_rejected", "sell_error",
      "chk_ticker", "chk_positions", "chk_orders", "chk_his", "chk_cancel",
      "stats_his", "load_positions", "stop_orders", "stop_cancel" }

(* One adapter method failing at every call an operation makes of it:      *)
(* fetch_his_order, fetch_positions, fetch_orders, fetch_ticker,           *)
(* cancel_order, create_order. *)
Outages ==
    { {"init_his", "chk_his", "stats_his"},
      {"init_positions", "build_positions", "persist_positions", "chk_positions"},
      {"init_orders", "chk_orders"},
      {"init_ticker", "chk_ticker"},
      {"init_cancel", "chk_cancel"},
      {"build_market", "buy_rejected", "sell_rejected"} }

(* what fails together: one call, or one method for the whole operation *)
FaultUnits == {{k} : k \in FaultKinds} \cup Outages

RECURSIVE UnionsUpTo(_, _)
(* the unions of at most n members of U *)
UnionsUpTo(U, n) ==
    IF n = 0 THEN {{}}
    ELSE UnionsUpTo(U, n - 1) \cup {p \cup u : p \in UnionsUpTo(U, n - 1), u \in U}

(* the calls that fail within one operation *)
FaultSets == UnionsUpTo(FaultUnits, MaxFaults)

----------------------------------------------------------------------------
(* The venue behind MsxExchange *)

(* fetch_orders / fetch_his_order: the market side of an order from the    *)
(* venue's longFlag and openType *)
OrderSide(long_flag, open_type) ==
    CASE long_flag = 1 /\ open_type = 1 -> "buy"
      [] long_flag = 2 /\ open_type = 1 -> "sell"
      [] long_flag = 1 /\ open_type = 2 -> "sell"
      [] OTHER -> "buy"

(* A world is the state one handler threads through its adapter calls:     *)
(* sd is the strategy data of the symbol being processed, cancels and subs *)
(* log the cancel and create calls the handler made, raised is set when a  *)
(* cancel_order call raised.                                               *)
World(sd) ==
    [sd |-> sd, open |-> openOrders, closed |-> closedOrders, pos |-> pos,
     nextOrderId |-> nextOrderId, nextPosId |-> nextPosId,
     cfgFile |-> cfgFile, csvFile |-> csvFile, cancels |-> 0, subs |-> <<>>,
     raised |-> FALSE]

(* the venue fills order o: it leaves the open set, heads the closed list  *)
(* and changes the position of its symbol (a position opened from size 0   *)
(* gets a new id, a position closed to size 0 is no longer reported)       *)
VenueFill(w, o) ==
    LET p == w.pos[o.symbol]
        opens == o.open_type = 1
        fresh == opens /\ p.size = 0
        left == p.size - Min(o.volume, p.size)
        newp == IF opens
                THEN [id |-> IF fresh THEN w.nextPosId ELSE p.id,
                      size |-> p.size + o.volume]
                ELSE [id |-> IF left = 0 THEN NoneId ELSE p.id, size |-> left]
        done == [o EXCEPT !.status = "filled",
                          !.pnl = IF opens THEN 0 ELSE 1]
    IN [w EXCEPT !.open = @ \ {o},
                 !.closed = <<done>> \o @,
                 !.pos = [@ EXCEPT ![o.symbol] = newp],
                 !.nextPosId = IF fresh THEN @ + 1 ELSE @]

(* MsxExchange.fetch_orders(symbol) *)
fetch_orders(w, symbol) == {o \in w.open : o.symbol = symbol}

(* MsxExchange.fetch_his_order(symbol): the closed orders of the symbol in *)
(* the venue's order *)
fetch_his_order(w, symbol) ==
    SelectSeqBy(w.closed, {o \in Range(w.closed) : o.symbol = symbol})

(* MsxExchange.cancel_order(order_id): with ok the venue closes the order  *)
(* as cancelled, otherwise the order keeps resting; the call is logged     *)
cancel_order(w, order_id, ok) ==
    LET hit == {o \in w.open : o.id = order_id}
        w1 == [w EXCEPT !.cancels = @ + 1]
    IN IF ok /\ hit # {}
       THEN LET o == CHOOSE x \in hit : TRUE
            IN [w1 EXCEPT !.open = @ \ {o},
                          !.closed = <<[o EXCEPT !.status = "cancelled"]>> \o @]
       ELSE w1

(* the venue has no order id, or no position id for a position the order  *)
(* would open, left *)
VenueFull(w, symbol, order_type, open_type) ==
    \/ w.nextOrderId > MaxOrders
    \/ /\ order_type = "market"
       /\ open_type = 1
       /\ w.pos[symbol].size = 0
       /\ w.nextPosId > MaxPos

(* the order the venue books for a create_order call; side is mapped to    *)
(* longFlag and the market side is derived from longFlag and openType *)
BookedOrder(w, symbol, side, order_type, vol, price, open_type) ==
    [id |-> w.nextOrderId, symbol |-> symbol,
     side |-> OrderSide(IF side = "buy" THEN 1 ELSE 2, open_type),
     long_flag |-> IF side = "buy" THEN 1 ELSE 2, open_type |-> open_type,
     price |-> IF order_type = "market" THEN TickerPrice ELSE price,
     volume |-> vol, status |-> "pending",
     timestamp |-> w.nextOrderId, pnl |-> 0]

(* the venue accepts order o: a limit order rests, a market order fills at *)
(* once *)
VenueAccept(w, o, order_type) ==
    IF order_type = "market"
    THEN VenueFill([w EXCEPT !.open = @ \cup {o}, !.nextOrderId = @ + 1], o)
    ELSE [w EXCEPT !.open = @ \cup {o}, !.nextOrderId = @ + 1]

(* the create_order call is logged in the world; after is the number of    *)
(* cancel_order calls the handler had made when it made this call *)
LogCall(w, symbol, side, order_type, vol, price, open_type) ==
    [w EXCEPT !.subs = Append(@,
        [kind |-> order_type,
         side |-> OrderSide(IF side = "buy" THEN 1 ELSE 2, open_type),
         open_type |-> open_type, price |-> price, volume |-> vol,
         after |-> w.cancels])]

(* MsxExchange.create_order: outcome "ok" is a venue that accepts;         *)
(* "rejected" returns the failed OrderInfo (id None); "error" returns      *)
(* None.  A full venue rejects.                                            *)
create_order(w, symbol, side, order_type, vol, price, open_type, outcome) ==
    IF outcome = "error"
    THEN [w |-> LogCall(w, symbol, side, order_type, vol, price, open_type),
          order |-> NoOrder]
    ELSE IF outcome = "rejected" \/ VenueFull(w, symbol, order_type, open_type)
    THEN [w |-> LogCall(w, symbol, side, order_type, vol, price, open_type),
          order |-> [id |-> NoneId, price |-> price, volume |-> vol]]
    ELSE [w |-> VenueAccept(
                    LogCall(w, symbol, side, order_type, vol, price, open_type),
                    BookedOrder(w, symbol, side, order_type, vol, price, open_type),
                    order_type),
          order |-> [id |-> w.nextOrderId, price |-> price, volume |-> vol]]

----------------------------------------------------------------------------
(* GridStrategy: order placement *)

(* _execute_order: None for a non-positive volume, otherwise what          *)
(* create_order returned (a failed OrderInfo is returned as it is)         *)
_execute_order(w, symbol, side, volume, open_type, price, order_type, outcome) ==
    IF volume <= 0
    THEN [w |-> w, order |-> NoOrder]
    ELSE create_order(w, symbol, side, order_type, volume, price, open_type, outcome)

CreateOutcome(f, rejected, error) ==
    IF error \in f THEN "error" ELSE IF rejected \in f THEN "rejected" ELSE "ok"

(* new_buy_price >= min_price, with new_buy_price = filled_price * (1 - s) *)
BuyInRange(sd, filled_price) ==
    filled_price * (SpacingScale - sd.grid_spacing) >= sd.min_price * SpacingScale

(* new_sell_price <= max_price, with new_sell_price = filled_price * (1 + s) *)
SellInRange(sd, filled_price) ==
    filled_price * (SpacingScale + sd.grid_spacing) <= sd.max_price * SpacingScale

(* a new_buy_price on the wrong side of filled_price *)
NewBuyPrice_above(sd, filled_price) ==
    (filled_price * (SpacingScale + sd.grid_spacing)) \div SpacingScale

(* new_buy_price and new_sell_price *)
NewBuyPrice(sd, filled_price) ==
    (filled_price * (SpacingScale - sd.grid_spacing)) \div SpacingScale

NewSellPrice(sd, filled_price) ==
    (filled_price * (SpacingScale + sd.grid_spacing)) \div SpacingScale

(* the result of an order submission is stored when it is not None *)
TrackOrder(old, new) == IF new = NoOrder THEN old ELSE new

StoreBuy(r) == [r.w EXCEPT !.sd.buy_order = TrackOrder(@, r.order)]

StoreSell(r) == [r.w EXCEPT !.sd.sell_order = TrackOrder(@, r.order)]

(* _place_grid_orders: the buy side *)
PlaceBuy(w, symbol, filled_price, order_volume, f) ==
    IF BuyInRange(w.sd, filled_price)
    THEN StoreBuy(_execute_order(w, symbol,
                      IF w.sd.direction = "long" THEN "buy" ELSE "sell",
                      order_volume,
                      IF w.sd.direction = "long" THEN 1 ELSE 2,
                      NewBuyPrice(w.sd, filled_price), "limit",
                      CreateOutcome(f, "buy_rejected", "buy_error")))
    ELSE w

(* a sell side that sells the reference volume whatever the position *)
PlaceSell_full(w, symbol, filled_price, order_volume, f) ==
    IF SellInRange(w.sd, filled_price) /\ w.sd.position.size > 0
    THEN StoreSell(_execute_order(w, symbol,
                       IF w.sd.direction = "long" THEN "buy" ELSE "sell",
                       order_volume,
                       IF w.sd.direction = "long" THEN 2 ELSE 1,
                       NewSellPrice(w.sd, filled_price), "limit",
                       CreateOutcome(f, "sell_rejected", "sell_error")))
    ELSE w

(* _place_grid_orders: the sell side *)
PlaceSell(w, symbol, filled_price, order_volume, f) ==
    IF SellInRange(w.sd, filled_price) /\ w.sd.position.size > 0
    THEN StoreSell(_execute_order(w, symbol,
                       IF w.sd.direction = "long" THEN "buy" ELSE "sell",
                       Min(w.sd.position.size, order_volume),
                       IF w.sd.direction = "long" THEN 2 ELSE 1,
                       NewSellPrice(w.sd, filled_price), "limit",
                       CreateOutcome(f, "sell_rejected", "sell_error")))
    ELSE w

(* _place_grid_orders(symbol, filled_price, order_volume) *)
_place_grid_orders(w, symbol, filled_price, order_volume, f) ==
    IF filled_price = NoneNum \/ order_volume = NoneNum \/ order_volume <= 0
    THEN w
    ELSE PlaceSell(PlaceBuy(w, symbol, filled_price, order_volume, f),
                   symbol, filled_price, order_volume, f)

(* _update_position: the local snapshot is overwritten from fetch_positions *)
(* unless the fetch failed *)
_update_position(w, symbol, failed) ==
    IF failed THEN w ELSE [w EXCEPT !.sd.position = w.pos[symbol]]

(* _initial_build_position: current_price clamped into the range *)
ClampedPrice(sd) == Max(sd.min_price, Min(sd.current_price, sd.max_price))

(* target_volume = total_capital * initial_ratio / current_price *)
TargetVolume(sd) ==
    (sd.total_capital * (IF sd.direction = "long"
                         THEN sd.max_price - ClampedPrice(sd)
                         ELSE ClampedPrice(sd) - sd.min_price))
        \div ((sd.max_price - sd.min_price) * ClampedPrice(sd))

(* the market order of the initial build, sent when the local position is  *)
(* empty; builds counts these calls of the strategy: 0, 1, 2 for more *)
BuildMarket(w, symbol, f) ==
    IF w.sd.position.size = 0
    THEN [_execute_order(w, symbol,
                        IF w.sd.direction = "long" THEN "buy" ELSE "sell",
                        TargetVolume(w.sd), 1, NoneNum, "market",
                        CreateOutcome(f, "build_market", "build_market")).w
          EXCEPT !.sd.builds = IF @ >= 2 THEN 2 ELSE @ + 1]
    ELSE w

(* _initial_build_position *)
_initial_build_position(w, symbol, f) ==
    IF \/ w.sd.current_price = NoneNum
       \/ w.sd.max_price - w.sd.min_price <= 0
       \/ ClampedPrice(w.sd) <= 0
    THEN w
    ELSE IF TargetVolume(w.sd) <= 0
    THEN w
    ELSE _update_position(BuildMarket(w, symbol, f), symbol, "build_positions" \in f)

----------------------------------------------------------------------------
(* GridStrategy: persistence *)

Snapshot(sd, symbol, pos_id) ==
    [pos_id |-> pos_id, symbol |-> symbol, min_price |-> sd.min_price,
     max_price |-> sd.max_price, direction |-> sd.direction,
     grid_spacing |-> sd.grid_spacing,
     investment_amount |-> sd.investment_amount, leverage |-> sd.leverage,
     total_capital |-> sd.total_capital, start_price |-> sd.start_price,
     each_order_size |-> sd.each_order_size,
     last_filled_time |-> sd.last_filled_time, co_type |-> sd.co_type]

(* _persist_strategy_info: the position id is the local one or, when that  *)
(* is empty, the one fetch_positions reports (and then stored locally) *)
PersistPosId(w, symbol, f) ==
    IF w.sd.position.id # NoneId THEN w.sd.position.id
    ELSE IF "persist_positions" \in f THEN NoneId
    ELSE w.pos[symbol].id

(* a snapshot file that every persist call writes anew *)
WriteOnce_overwrite(w, symbol, pos_id) ==
    IF pos_id = NoneId THEN w
    ELSE [w EXCEPT !.cfgFile = [p \in DOMAIN @ \cup {pos_id} |->
                         IF p = pos_id THEN Snapshot(w.sd, symbol, pos_id)
                         ELSE @[p]]]

(* the snapshot file of pos_id is written only when it does not exist *)
WriteOnce(w, symbol, pos_id) ==
    IF pos_id = NoneId \/ pos_id \in DOMAIN w.cfgFile THEN w
    ELSE [w EXCEPT !.cfgFile = [p \in DOMAIN @ \cup {pos_id} |->
                         IF p = pos_id THEN Snapshot(w.sd, symbol, pos_id)
                         ELSE @[p]]]

(* _persist_strategy_info *)
_persist_strategy_info(w, symbol, f) ==
    WriteOnce([w EXCEPT !.sd.position.id = PersistPosId(w, symbol, f)],
              symbol, PersistPosId(w, symbol, f))

(* the header line of a ledger file: the names of the columns *)
CsvHeader ==
    [order_id |-> 0, side |-> "side", open_type |-> 0, price |-> 0,
     volume |-> 0, pnl |-> 0, timestamp |-> 0, pos_id |-> 0]

(* a ledger file opened for writing, not for appending *)
_persist_order_to_csv_rewrite(files, record, pos_id) ==
    [p \in DOMAIN files \cup {pos_id} |->
        IF p = pos_id THEN <<CsvHeader, record>> ELSE files[p]]

(* _persist_order_to_csv: the row is appended to the file of pos_id; a     *)
(* file that does not exist is created with the header line first *)
_persist_order_to_csv(files, record, pos_id) ==
    [p \in DOMAIN files \cup {pos_id} |->
        IF p = pos_id
        THEN (IF p \in DOMAIN files THEN files[p] ELSE <<CsvHeader>>) \o <<record>>
        ELSE files[p]]

(* _load_orders_from_csv: the rows after the header line that have a       *)
(* positive timestamp, sorted *)
_load_orders_from_csv(files, pos_id) ==
    IF pos_id \notin DOMAIN files THEN <<>>
    ELSE SortByTimestamp(SelectSeqBy(Tail(files[pos_id]),
                            {r \in Range(Tail(files[pos_id])) : r.timestamp > 0}))

----------------------------------------------------------------------------
(* GridStrategy: statistics *)

Timestamps(q) == [i \in 1..Len(q) |-> q[i].timestamp]

(* the status filter of process_order_statistics and of _init_ step 5 *)
FilledOrders(his_orders) ==
    SelectSeqBy(his_orders, {o \in Range(his_orders) :
                                o.status = "filled" /\ o.timestamp # 0})

TradeRecord(o, pos_id) ==
    [order_id |-> o.id, side |-> o.side, open_type |-> o.open_type,
     price |-> o.price, volume |-> o.volume, pnl |-> o.pnl,
     timestamp |-> o.timestamp, pos_id |-> pos_id]

RECURSIVE PersistAll(_, _, _)
PersistAll(files, records, pos_id) ==
    IF records = <<>> THEN files
    ELSE PersistAll(_persist_order_to_csv(files, Head(records), pos_id),
                    Tail(records), pos_id)

(* the watermark taken from the oldest entry of the ledger *)
StatsWatermark_first(last_filled_time, his_order) == his_order[1].timestamp

(* the watermark after a statistics pass: his_order is the in-memory       *)
(* ledger after the append *)
StatsWatermark(last_filled_time, his_order) ==
    Max(last_filled_time, SeqMax(Timestamps(his_order)))

(* the filled closed orders newer than the watermark, sorted by timestamp *)
NewFilled(his_orders, last_filled_time) ==
    SortByTimestamp(SelectSeqBy(FilledOrders(his_orders),
        {o \in Range(his_orders) : o.timestamp > last_filled_time}))

TradeRecords(new_filled, pos_id) ==
    [i \in 1..Len(new_filled) |-> TradeRecord(new_filled[i], pos_id)]

(* the ledger, its file and the watermark after the records are appended *)
RecordFills(w, records) ==
    [w EXCEPT !.sd.his_order = @ \o records,
              !.csvFile = PersistAll(@, records, w.sd.position.id),
              !.sd.last_filled_time =
                  StatsWatermark(@, w.sd.his_order \o records)]

(* process_order_statistics on the closed orders his_orders; raised is the *)
(* AttributeError of o.posId when the local position has no id *)
StatsPass(w, his_orders) ==
    IF NewFilled(his_orders, w.sd.last_filled_time) = <<>>
    THEN [w |-> w, raised |-> FALSE]
    ELSE IF w.sd.position.id = NoneId
    THEN [w |-> w, raised |-> TRUE]
    ELSE [w |-> RecordFills(w, TradeRecords(
                    NewFilled(his_orders, w.sd.last_filled_time),
                    w.sd.position.id)),
          raised |-> FALSE]

(* process_order_statistics *)
process_order_statistics(w, symbol, f) ==
    StatsPass(w, IF "stats_his" \in f THEN <<>> ELSE fetch_his_order(w, symbol))

RECURSIVE realized_pnl(_)
(* _calculate_summary: realized_pnl is the sum of the pnl of the ledger *)
realized_pnl(his_order) ==
    IF his_order = <<>> THEN 0
    ELSE Head(his_order).pnl + realized_pnl(Tail(his_order))

(* _calculate_summary: grid_count is the length of the ledger *)
grid_count(his_order) == Len(his_order)

----------------------------------------------------------------------------
(* GridStrategy: the steady-state check *)

RECURSIVE CancelAll(_, _, _)
CancelAll(w, ids, ok) ==
    IF ids = {} THEN w
    ELSE CancelAll(cancel_order(w, CHOOSE x \in ids : TRUE, ok),
                   ids \ {CHOOSE x \in ids : TRUE}, ok)

(* an order reference is inferred filled when its id is not among the ids  *)
(* of the open orders *)
InferredFilled(order, order_ids) == order # NoOrder /\ order.id \notin order_ids

(* a refresh of the price only: the position is left as it was *)
CheckRefresh_price(w, symbol, f) ==
    [w EXCEPT !.sd.current_price = IF "chk_ticker" \in f THEN @ ELSE TickerPrice]

(* check_order: ticker and position refresh *)
CheckRefresh(w, symbol, f) ==
    [w EXCEPT !.sd.current_price = IF "chk_ticker" \in f THEN @ ELSE TickerPrice,
              !.sd.position = IF "chk_positions" \in f THEN @ ELSE w.pos[symbol]]

(* check_order: the resolution rule taken *)
Branch(w, symbol) ==
    IF /\ InferredFilled(w.sd.buy_order, {o.id : o \in fetch_orders(w, symbol)})
       /\ InferredFilled(w.sd.sell_order, {o.id : o \in fetch_orders(w, symbol)})
    THEN "both"
    ELSE IF InferredFilled(w.sd.buy_order, {o.id : o \in fetch_orders(w, symbol)})
    THEN "buy"
    ELSE IF InferredFilled(w.sd.sell_order, {o.id : o \in fetch_orders(w, symbol)})
    THEN "sell"
    ELSE "none"

(* both filled, re-anchored on the tracked buy order *)
ResolveBoth_tracked(w, symbol, his_orders, f) ==
    _place_grid_orders(w, symbol, w.sd.buy_order.price, w.sd.buy_order.volume, f)

(* both filled: re-anchor on the head of the closed orders, if any *)
ResolveBoth(w, symbol, his_orders, f) ==
    IF his_orders # <<>>
    THEN _place_grid_orders(w, symbol, his_orders[1].price, his_orders[1].volume, f)
    ELSE w

(* the other side is cancelled when it is tracked with an id; the result   *)
(* of the cancellation is not looked at, and a cancel_order call that      *)
(* raises (MsxExchange.cancel_order and the head of _request_api have no   *)
(* handler) is not caught by check_order *)
CancelTracked(w, order, f) ==
    IF order # NoOrder /\ order.id # NoneId
    THEN IF "chk_cancel_raise" \in f
         THEN [w EXCEPT !.cancels = @ + 1, !.raised = TRUE]
         ELSE cancel_order(w, order.id, "chk_cancel" \notin f)
    ELSE w

(* the placement that follows the cancellation in a resolution rule, not   *)
(* reached when the cancel call raised *)
PlaceAfterCancel(w, symbol, filled_price, order_volume, f) ==
    IF w.raised THEN w
    ELSE _place_grid_orders(w, symbol, filled_price, order_volume, f)

(* resolution rules that place the new pair before they cancel the other   *)
(* side *)
Resolve_late(w, symbol, branch, buy_order, sell_order, f) ==
    CASE branch = "both" ->
             ResolveBoth(w, symbol,
                         IF "chk_his" \in f THEN <<>> ELSE fetch_his_order(w, symbol), f)
      [] branch = "buy" ->
             CancelTracked(_place_grid_orders(w, symbol, buy_order.price,
                                              buy_order.volume, f),
                           sell_order, f)
      [] branch = "sell" ->
             CancelTracked(_place_grid_orders(w, symbol, sell_order.price,
                                              sell_order.volume, f),
                           buy_order, f)
      [] OTHER -> w

(* check_order: the resolution rules, on the buy_order and sell_order read  *)
(* after fetch_orders returned *)
Resolve(w, symbol, branch, buy_order, sell_order, f) ==
    CASE branch = "both" ->
             ResolveBoth(w, symbol,
                         IF "chk_his" \in f THEN <<>> ELSE fetch_his_order(w, symbol), f)
      [] branch = "buy" ->
             PlaceAfterCancel(CancelTracked(w, sell_order, f), symbol,
                              buy_order.price, buy_order.volume, f)
      [] branch = "sell" ->
             PlaceAfterCancel(CancelTracked(w, buy_order, f), symbol,
                              sell_order.price, sell_order.volume, f)
      [] OTHER -> w

(* check_order: the resolution rules *)
CheckResolve(w, symbol, f) ==
    Resolve(w, symbol, Branch(w, symbol), w.sd.buy_order, w.sd.sell_order, f)

CheckResult(st, branch) == [w |-> st.w, raised |-> st.raised, branch |-> branch]

(* check_order after the refresh; a failed fetch_orders ends it *)
CheckOrders(w, symbol, f) ==
    IF "chk_orders" \in f
    THEN [w |-> w, raised |-> FALSE, branch |-> "skip"]
    ELSE IF CheckResolve(w, symbol, f).raised
    THEN [w |-> CheckResolve(w, symbol, f), raised |-> TRUE,
          branch |-> Branch(w, symbol)]
    ELSE CheckResult(process_order_statistics(CheckResolve(w, symbol, f), symbol, f),
                     Branch(w, symbol))

(* check_order; branch names the resolution rule taken *)
check_order(w, symbol, f) == CheckOrders(CheckRefresh(w, symbol, f), symbol, f)

----------------------------------------------------------------------------
(* GridStrategy: the one-time initialization *)

(* step 1: the open orders are cancelled, unless fetch_orders failed; a    *)
(* cancel_order call that raises is caught and the next order is tried *)
InitCancel(w, symbol, f) ==
    IF "init_orders" \in f THEN w
    ELSE CancelAll(w, {o.id : o \in fetch_orders(w, symbol)},
                   "init_cancel" \notin f /\ "init_cancel_raise" \notin f)

(* step 2: the ticker price, or the last known price, or the midpoint *)
InitPriceOf(sd, f) ==
    IF "init_ticker" \notin f THEN TickerPrice
    ELSE IF sd.current_price # NoneNum THEN sd.current_price
    ELSE (sd.min_price + sd.max_price) \div 2

(* step 2: current_price, start_price (set once) and the position *)
InitPrice(w, symbol, f) ==
    [w EXCEPT !.sd.current_price = InitPriceOf(w.sd, f),
              !.sd.start_price = IF @ = NoneNum THEN InitPriceOf(w.sd, f) ELSE @,
              !.sd.position = IF "init_positions" \in f THEN @ ELSE w.pos[symbol]]

(* step 3: the initial build and the snapshot, without a position *)
InitBuild(w, symbol, f) ==
    IF "init_positions" \notin f /\ w.pos[symbol].size > 0
    THEN w
    ELSE _persist_strategy_info(_initial_build_position(w, symbol, f), symbol, f)

(* step 4: each_order_size = total_capital * grid_spacing / price_range *)
InitOrderSize(w) ==
    [w EXCEPT !.sd.each_order_size =
        (w.sd.total_capital * w.sd.grid_spacing)
            \div (SpacingScale * (w.sd.max_price - w.sd.min_price))]

(* each_order_size * min_price < min_order_size *)
BelowMinNotional(sd) ==
    sd.total_capital * sd.grid_spacing * sd.min_price
        < MinOrderSize * SpacingScale * (sd.max_price - sd.min_price)

(* step 5 of _init_: the watermark is the largest timestamp of the filled  *)
(* closed orders, 0 when there is none or the fetch returned nothing *)
InitWatermark(his_orders) == SeqMax(Timestamps(FilledOrders(his_orders)))

InitHistory(w, symbol, f) ==
    [w EXCEPT !.sd.last_filled_time =
        InitWatermark(IF "init_his" \in f THEN <<>> ELSE fetch_his_order(w, symbol))]

(* step 6: the first grid pair around current_price *)
InitGrid(w, symbol, f) ==
    IF w.sd.each_order_size <= 0 THEN w
    ELSE _place_grid_orders(w, symbol, w.sd.current_price, w.sd.each_order_size, f)

(* step 7: initialized, and the snapshot once more *)
InitDone(w, symbol, f) ==
    _persist_strategy_info([w EXCEPT !.sd._initialized = TRUE], symbol, f)

(* steps 4 to 7 without the check of the minimum order notional *)
InitFinish_noraise(w, symbol, f) ==
    [w |-> InitDone(InitGrid(InitHistory(w, symbol, f), symbol, f), symbol, f),
     raised |-> FALSE]

(* steps 4 to 7; raised is the ValueError of the minimum order notional *)
InitFinish(w, symbol, f) ==
    IF BelowMinNotional(w.sd)
    THEN [w |-> w, raised |-> TRUE]
    ELSE [w |-> InitDone(InitGrid(InitHistory(w, symbol, f), symbol, f), symbol, f),
          raised |-> FALSE]

(* _init_ *)
_init_(w, symbol, f) ==
    InitFinish(InitOrderSize(InitBuild(InitPrice(InitCancel(w, symbol, f),
                                                 symbol, f), symbol, f)),
               symbol, f)

----------------------------------------------------------------------------
(* GridStrategy: admission, teardown, recovery *)

(* params.get("asset_type", "crypto") *)
AssetType(c) == IF "asset_type" \in DOMAIN c THEN c.asset_type ELSE "crypto"

(* start(): co_type of a contract, 1 for a stock and 3 for a crypto asset  *)
(* (market_type is "contract" throughout) *)
CoType(c) == IF AssetType(c) = "stock" THEN 1 ELSE 3

(* _create_symbol_data filled in by start() *)
NewSymbolData(c) ==
    [min_price |-> c.min_price, max_price |-> c.max_price,
     direction |-> c.direction, grid_spacing |-> c.grid_spacing,
     investment_amount |-> c.investment_amount, leverage |-> c.leverage,
     total_capital |-> c.investment_amount * c.leverage,
     current_price |-> NoneNum, start_price |-> NoneNum,
     buy_order |-> NoOrder, sell_order |-> NoOrder,
     position |-> [id |-> NoneId, size |-> 0],
     his_order |-> <<>>, _status |-> TRUE, _initialized |-> FALSE,
     last_filled_time |-> 0, each_order_size |-> NoneNum,
     co_type |-> CoType(c), recovered |-> FALSE, builds |-> 0]

(* the field checks of start() without the upper bound of leverage *)
ValidParams_nocap(c) ==
    /\ c.min_price > 0
    /\ c.max_price > 0
    /\ c.min_price < c.max_price
    /\ c.direction \in {"long", "short"}
    /\ c.grid_spacing > 0 /\ c.grid_spacing < SpacingScale
    /\ c.investment_amount > 0
    /\ c.leverage > 0
    /\ AssetType(c) \in {"crypto", "stock"}

(* the field checks of start() *)
ValidParams(c) ==
    /\ c.min_price > 0
    /\ c.max_price > 0
    /\ c.min_price < c.max_price
    /\ c.direction \in {"long", "short"}
    /\ c.grid_spacing > 0 /\ c.grid_spacing < SpacingScale
    /\ c.investment_amount > 0
    /\ c.leverage > 0 /\ c.leverage <= MaxLeverage
    /\ AssetType(c) \in {"crypto", "stock"}

(* start() without the check of self.symbols *)
AlreadyRegistered_never(syms, symbol) == FALSE

(* start() rejects a symbol that is in self.symbols *)
AlreadyRegistered(syms, symbol) == symbol \in DOMAIN syms

(* start(params): the registry and the result it returns, in the order of *)
(* its checks; funds_ok is the outcome of the balance check against the    *)
(* venue *)
start(syms, c, funds_ok) ==
    IF AlreadyRegistered(syms, c.symbol)
    THEN [symbols |-> syms, result |-> "failed", message |-> "exists"]
    ELSE IF ~ValidParams(c)
    THEN [symbols |-> syms, result |-> "failed", message |-> "params"]
    ELSE IF ~funds_ok
    THEN [symbols |-> syms, result |-> "failed", message |-> "funds"]
    ELSE [symbols |-> [s \in DOMAIN syms \cup {c.symbol} |->
                          IF s = c.symbol THEN NewSymbolData(c) ELSE syms[s]],
          result |-> "success", message |-> ""]

(* a _stop_symbol that closes the position with a market order *)
_stop_symbol_flat(w, symbol, f) ==
    [_execute_order(w, symbol,
                    IF w.sd.direction = "long" THEN "buy" ELSE "sell",
                    w.pos[symbol].size, 2, NoneNum, "market", "ok").w
     EXCEPT !.sd._status = FALSE,
            !.sd.buy_order = NoOrder, !.sd.sell_order = NoOrder]

(* _stop_symbol *)
_stop_symbol(w, symbol, f) ==
    [(IF "stop_orders" \in f THEN w
      ELSE CancelAll(w, {o.id : o \in fetch_orders(w, symbol)},
                     "stop_cancel" \notin f))
     EXCEPT !.sd._status = FALSE,
            !.sd.buy_order = NoOrder, !.sd.sell_order = NoOrder]

RECURSIVE stop(_, _, _, _)
(* stop() without a symbol: _stop_symbol for every key of the registry, in *)
(* order; w threads the venue through the calls *)
stop(syms, w, todo, f) ==
    IF todo = <<>> THEN [symbols |-> syms, w |-> w]
    ELSE stop([syms EXCEPT ![Head(todo)] =
                   _stop_symbol([w EXCEPT !.sd = syms[Head(todo)]], Head(todo), f).sd],
              _stop_symbol([w EXCEPT !.sd = syms[Head(todo)]], Head(todo), f),
              Tail(todo), f)

(* a load_strategy that marks the strategy initialized *)
LoadInitialized_set == TRUE

(* load_strategy leaves _initialized as _create_symbol_data set it *)
LoadInitialized == FALSE

(* load_strategy: the strategy data rebuilt for an open position from its  *)
(* snapshot and its ledger file *)
LoadedSymbolData(info, position, files) ==
    LET his_orders == _load_orders_from_csv(files, position.id)
        max_timestamp == SeqMax(Timestamps(his_orders))
    IN [min_price |-> info.min_price, max_price |-> info.max_price,
        direction |-> info.direction, grid_spacing |-> info.grid_spacing,
        investment_amount |-> info.investment_amount, leverage |-> info.leverage,
        total_capital |-> info.total_capital,
        current_price |-> NoneNum, start_price |-> info.start_price,
        buy_order |-> NoOrder, sell_order |-> NoOrder,
        position |-> position,
        his_order |-> his_orders, _status |-> TRUE,
        _initialized |-> LoadInitialized,
        last_filled_time |-> Max(info.last_filled_time, max_timestamp),
        each_order_size |-> info.each_order_size,
        co_type |-> info.co_type, recovered |-> TRUE, builds |-> 0]

(* load_strategy: the positions adopted, by symbol of their snapshot *)
Adoptable(positions, cfgs) ==
    {s \in Symbols : /\ positions[s].id # NoneId
                     /\ positions[s].size > 0
                     /\ positions[s].id \in DOMAIN cfgs
                     /\ cfgs[positions[s].id].symbol = s}

(* a load_strategy that looks the snapshot up by symbol *)
load_strategy_bysymbol(positions, cfgs, files, failed) ==
    IF failed THEN <<>>
    ELSE [s \in {x \in Symbols : /\ positions[x].size > 0
                                 /\ \E p \in DOMAIN cfgs : cfgs[p].symbol = x} |->
             LoadedSymbolData(cfgs[CHOOSE p \in DOMAIN cfgs : cfgs[p].symbol = s],
                              positions[s], files)]

(* load_strategy on a fresh engine *)
load_strategy(positions, cfgs, files, failed) ==
    IF failed THEN <<>>
    ELSE [s \in Adoptable(positions, cfgs) |->
             LoadedSymbolData(cfgs[positions[s].id], positions[s], files)]

----------------------------------------------------------------------------
(* The state machine *)

(* what the last operation was, what it returned and which adapter calls   *)
(* it made; note is the resolution rule of a tick, the reason of a failed  *)
(* start, the status of the symbol before a delete *)
Event(op, symbol, result, w, init, note) ==
    [op |-> op, symbol |-> symbol, result |-> result,
     cancels |-> w.cancels, subs |-> w.subs, init |-> init, note |-> note]

NoCalls == [cancels |-> 0, subs |-> <<>>]

(* _trading_status_cache as __init__ sets it *)
NoCache == [is_trade |-> "none", start_trade_time |-> NoneNum,
            last_update_time |-> NoneNum]

(* no check_order call is suspended *)
NoTick == [symbol |-> "", branch |-> "-", buy_order |-> NoOrder,
           sell_order |-> NoOrder]

Init ==
    /\ symbols = <<>>
    /\ keys = <<>>
    /\ cfgFile = <<>>
    /\ csvFile = <<>>
    /\ openOrders = {}
    /\ closedOrders = <<>>
    /\ pos = [s \in Symbols |-> [id |-> NoneId, size |-> 0]]
    /\ nextOrderId = 1
    /\ nextPosId = 1
    /\ faults = 0
    /\ restarts = 0
    /\ loop = "running"
    /\ pending = <<>>
    /\ inflight = NoTick
    /\ tradingCache = NoCache
    /\ now = 0
    /\ starting = <<>>
    /\ ev = Event("new", "", "ok", NoCalls, "none", "-")

(* an operation whose adapter calls f fail takes one of the MaxFaults      *)
(* operations that may see a failure *)
Spend(f) ==
    IF f = {} THEN UNCHANGED faults
    ELSE faults < MaxFaults /\ faults' = faults + 1

Commit(w) ==
    /\ openOrders' = w.open
    /\ closedOrders' = w.closed
    /\ pos' = w.pos
    /\ nextOrderId' = w.nextOrderId
    /\ nextPosId' = w.nextPosId
    /\ cfgFile' = w.cfgFile
    /\ csvFile' = w.csvFile

(* POST /api/start *)
Start(c, funds_ok) ==
    LET r == start(symbols, c, funds_ok)
    IN /\ symbols' = r.symbols
       /\ keys' = IF r.result = "success" THEN Append(keys, c.symbol) ELSE keys
       /\ ev' = Event("start", c.symbol, r.result, NoCalls, "none", r.message)
       /\ UNCHANGED <<cfgFile, csvFile, openOrders, closedOrders, pos,
                      nextOrderId, nextPosId, faults, restarts,
                      loop, pending, inflight, tradingCache, now, starting>>

(* the state after a handler that ended in world w *)
StopCommit(s, w) ==
    /\ symbols' = [symbols EXCEPT ![s] = w.sd]
    /\ Commit(w)
    /\ ev' = Event("stop", s, "ok", w, "none", "-")

(* POST /api/stop?symbol= for a registered symbol *)
Stop(s, f) ==
    /\ s \in DOMAIN symbols
    /\ Spend(f)
    /\ UNCHANGED <<keys, restarts, loop, pending, inflight, tradingCache, now, starting>>
    /\ StopCommit(s, _stop_symbol(World(symbols[s]), s, f))

StopAllCommit(r) ==
    /\ symbols' = r.symbols
    /\ Commit(r.w)
    /\ ev' = Event("stop_all", "", "ok", r.w, "none", "-")

(* POST /api/stop without a symbol, and the shutdown of the application:   *)
(* every strategy is stopped, then the run() task is cancelled (after the   *)
(* stops no strategy has _status set), the pass in progress with it *)
StopAll(f) ==
    /\ Spend(f)
    /\ loop' = IF loop = "running" THEN "cancelled" ELSE loop
    /\ pending' = <<>>
    /\ inflight' = NoTick
    /\ UNCHANGED <<keys, restarts, tradingCache, now, starting>>
    /\ StopAllCommit(stop(symbols, World(NoCfg), keys, f))

(* a delete_strategy that answers without removing *)
delete_strategy_keep(syms, s) ==
    [symbols |-> syms, result |-> IF s \in DOMAIN syms THEN "success" ELSE "failed"]

(* app.delete_strategy after its call of stop: removal from the registry,  *)
(* 404 for a symbol that is not registered *)
delete_strategy(syms, s) ==
    IF s \in DOMAIN syms
    THEN [symbols |-> [x \in DOMAIN syms \ {s} |-> syms[x]], result |-> "success"]
    ELSE [symbols |-> syms, result |-> "failed"]

DeleteCommit(s, w, was) ==
    /\ symbols' = delete_strategy(
                      IF was = "absent" THEN symbols
                      ELSE [symbols EXCEPT ![s] = w.sd], s).symbols
    /\ Commit(w)
    /\ ev' = Event("delete", s,
                   delete_strategy(
                       IF was = "absent" THEN symbols
                       ELSE [symbols EXCEPT ![s] = w.sd], s).result,
                   w, "none", was)

(* DELETE /api/strategies/{symbol} *)
Delete(s, f) ==
    /\ Spend(f)
    /\ keys' = SelectSeqBy(keys, Symbols \ {s})
    /\ UNCHANGED <<restarts, loop, pending, inflight, tradingCache, now, starting>>
    /\ IF s \in DOMAIN symbols
       THEN DeleteCommit(s, _stop_symbol(World(symbols[s]), s, f),
                         IF symbols[s]._status THEN "running" ELSE "stopped")
       ELSE DeleteCommit(s, World(NoCfg), "absent")

(* a pass that goes on to check_order whatever _init_ did *)
RunCheck_always(ri, s, f) == check_order(ri.w, s, f)

(* the scheduler's pass for one symbol: _init_ when it is not initialized,  *)
(* then check_order unless _init_ raised *)
RunCheck(ri, s, f) ==
    IF ri.raised
    THEN [w |-> ri.w, raised |-> TRUE, branch |-> "-"]
    ELSE check_order(ri.w, s, f)

RunSymbol(w, s, f) ==
    IF w.sd._initialized
    THEN check_order(w, s, f)
    ELSE RunCheck(_init_(w, s, f), s, f)

TickCommit(s, rc, needInit) ==
    /\ symbols' = [symbols EXCEPT ![s] = rc.w.sd]
    /\ Commit(rc.w)
    /\ ev' = Event("tick", s,
                   IF ~rc.raised THEN "ok"
                   ELSE IF rc.w.raised THEN "cancel_error" ELSE "error", rc.w,
                   IF ~needInit THEN "none"
                   ELSE IF rc.branch = "-" THEN "raised" ELSE "done",
                   rc.branch)

(* one pass of the body of the run() loop for a symbol whose _status is    *)
(* set and which is not a stock contract: is_trading stays True *)
Tick(s, f) ==
    /\ s \in DOMAIN symbols
    /\ symbols[s]._status
    /\ symbols[s].co_type # 1
    /\ loop = "running"
    /\ Spend(f)
    /\ UNCHANGED <<keys, restarts, loop, pending, inflight, tradingCache, now, starting>>
    /\ TickCommit(s, RunSymbol(World(symbols[s]), s, f), ~symbols[s]._initialized)

(* the process dies and a fresh engine starts: run() calls load_strategy   *)
(* before its loop *)
Restart(f) ==
    /\ restarts < MaxRestarts
    /\ restarts' = restarts + 1
    /\ loop' = "running"
    /\ pending' = <<>>
    /\ inflight' = NoTick
    /\ Spend(f)
    /\ symbols' = load_strategy(pos, cfgFile, csvFile, "load_positions" \in f)
    /\ keys' = SelectSeqBy(SymbolOrder, DOMAIN symbols')
    /\ ev' = Event("restart", "", "ok", NoCalls, "none", "-")
    /\ tradingCache' = NoCache
    /\ starting' = <<>>
    /\ UNCHANGED <<cfgFile, csvFile, openOrders, closedOrders, pos,
                   nextOrderId, nextPosId, now>>

(* the venue fills a resting order *)
Fill(o) ==
    /\ o \in openOrders
    /\ (o.open_type = 1 /\ pos[o.symbol].size = 0) => nextPosId <= MaxPos
    /\ LET w == VenueFill([open |-> openOrders, closed |-> closedOrders,
                           pos |-> pos, nextPosId |-> nextPosId], o)
       IN /\ openOrders' = w.open
          /\ closedOrders' = w.closed
          /\ pos' = w.pos
          /\ nextPosId' = w.nextPosId
    /\ ev' = Event("fill", o.symbol, "ok", NoCalls, "none", "-")
    /\ UNCHANGED <<symbols, keys, cfgFile, csvFile, nextOrderId, faults,
                   restarts, loop, pending, inflight, tradingCache, now, starting>>

(* One symbol, every operation, adapter faults and restarts. *)
Traded == {"A"}

Next ==
    \/ \E c \in Configs \cup LowNotionalConfigs, funds_ok \in BOOLEAN :
           c.symbol \in Traded /\ Start(c, funds_ok)
    \/ \E s \in Traded, f \in FaultSets : Stop(s, f)
    \/ \E f \in FaultSets : StopAll(f)
    \/ \E s \in Traded, f \in FaultSets : Delete(s, f)
    \/ \E s \in Traded, f \in FaultSets : Tick(s, f)
    \/ \E f \in FaultSets : Restart(f)
    \/ \E o \in openOrders : Fill(o)

Spec == Init /\ [][Next]_vars

(* Every symbol, the control surface and the scheduler against an adapter  *)
(* that does not fail. *)
NextRegistry ==
    \/ \E c \in Configs, funds_ok \in BOOLEAN : Start(c, funds_ok)
    \/ \E s \in Symbols : Stop(s, {})
    \/ StopAll({})
    \/ \E s \in Symbols : Delete(s, {})
    \/ \E s \in Symbols : Tick(s, {})
    \/ \E o \in openOrders : Fill(o)

SpecRegistry == Init /\ [][NextRegistry]_vars

(* The scheduler loop of run(), pass by pass and visit by visit, with the  *)
(* handlers of the control surface running at its suspension points: a    *)
(* valid grid on one symbol and a grid whose order notional is below the   *)
(* minimum on the other, an adapter that does not fail.                    *)
SchedConfigs ==
    { [symbol |-> "A", min_price |-> 2, max_price |-> 10, direction |-> "long",
       grid_spacing |-> 500, investment_amount |-> 40, leverage |-> 2],
      [symbol |-> "B", min_price |-> 2, max_price |-> 10, direction |-> "long",
       grid_spacing |-> 500, investment_amount |-> 20, leverage |-> 2] }

(* the event loop runs a handler of the control surface only while run()   *)
(* is suspended: in the sleep between two passes or in an adapter call of  *)
(* the visit in progress *)
Yielded == pending = <<>> \/ inflight # NoTick

(* run(): a pass starts over list(self.symbols.keys()) *)
PassBegin ==
    /\ loop = "running"
    /\ pending = <<>>
    /\ inflight = NoTick
    /\ keys # <<>>
    /\ pending' = keys
    /\ ev' = Event("pass", "", "ok", NoCalls, "none", "-")
    /\ UNCHANGED <<symbols, keys, cfgFile, csvFile, openOrders, closedOrders,
                   pos, nextOrderId, nextPosId, faults, restarts, loop, inflight,
                   tradingCache, now, starting>>

(* check_order: what it holds in local variables once fetch_orders returned *)
Captured(w, s) ==
    [symbol |-> s, branch |-> Branch(w, s),
     buy_order |-> w.sd.buy_order, sell_order |-> w.sd.sell_order]

VisitCommit(s, w, result, init, note, tick, rest) ==
    /\ symbols' = [symbols EXCEPT ![s] = w.sd]
    /\ Commit(w)
    /\ inflight' = tick
    /\ pending' = rest
    /\ ev' = Event("visit", s, result, w, init, note)

(* check_order up to its resolution rules, where it is suspended in the    *)
(* adapter call of the rule (or of the statistics) *)
VisitSuspend(s, w, init) ==
    VisitCommit(s, w, "ok", init, Branch(w, s), Captured(w, s), pending)

(* the exception of _init_ is caught at the symbol's try block and the     *)
(* visit ends; otherwise check_order follows *)
VisitInit(s, ri) ==
    IF ri.raised
    THEN VisitCommit(s, ri.w, "error", "raised", "-", NoTick, Tail(pending))
    ELSE VisitSuspend(s, CheckRefresh(ri.w, s, {}), "done")

(* the registry lookup of a key that is gone raises KeyError outside the   *)
(* symbol's try block: the outer handler of run() logs it and run() ends *)
VisitMissing(s) ==
    /\ loop' = "exited"
    /\ pending' = <<>>
    /\ ev' = Event("visit", s, "keyerror", NoCalls, "none", "-")
    /\ UNCHANGED <<symbols, cfgFile, csvFile, openOrders, closedOrders, pos,
                   nextOrderId, nextPosId, inflight>>

VisitSkip(s) ==
    /\ pending' = Tail(pending)
    /\ ev' = Event("visit", s, "skipped", NoCalls, "none", "-")
    /\ UNCHANGED <<symbols, cfgFile, csvFile, openOrders, closedOrders, pos,
                   nextOrderId, nextPosId, inflight>>

(* run(): the body of the for loop for the next key of the pass *)
VisitBegin ==
    /\ loop = "running"
    /\ pending # <<>>
    /\ inflight = NoTick
    /\ UNCHANGED <<keys, faults, restarts, tradingCache, now, starting>>
    /\ IF Head(pending) \notin DOMAIN symbols
       THEN VisitMissing(Head(pending))
       ELSE /\ loop' = loop
            /\ IF ~symbols[Head(pending)]._status
               THEN VisitSkip(Head(pending))
               ELSE IF symbols[Head(pending)]._initialized
               THEN VisitSuspend(Head(pending),
                                 CheckRefresh(World(symbols[Head(pending)]),
                                              Head(pending), {}), "none")
               ELSE VisitInit(Head(pending),
                              _init_(World(symbols[Head(pending)]),
                                     Head(pending), {}))

(* the rest of check_order for a symbol that is still registered *)
ResumeCommit(s, t, r) ==
    /\ symbols' = [symbols EXCEPT ![s] = r.w.sd]
    /\ Commit(r.w)
    /\ ev' = Event("resume", s, IF r.raised THEN "error" ELSE "ok", r.w,
                   "none", t.branch)

(* the rest of check_order for a symbol deleted meanwhile: the other side  *)
(* is cancelled, _place_grid_orders and process_order_statistics return at *)
(* their registry check *)
ResumeOrphan(s, t, w) ==
    /\ symbols' = symbols
    /\ Commit(w)
    /\ ev' = Event("resume", s, "ok", w, "none", t.branch)

(* check_order resumes with the locals it captured *)
VisitResume ==
    /\ loop = "running"
    /\ inflight # NoTick
    /\ inflight' = NoTick
    /\ pending' = Tail(pending)
    /\ UNCHANGED <<keys, faults, restarts, loop, tradingCache, now, starting>>
    /\ IF inflight.symbol \in DOMAIN symbols
       THEN ResumeCommit(inflight.symbol, inflight,
                process_order_statistics(
                    Resolve(World(symbols[inflight.symbol]), inflight.symbol,
                            inflight.branch, inflight.buy_order,
                            inflight.sell_order, {}),
                    inflight.symbol, {}))
       ELSE ResumeOrphan(inflight.symbol, inflight,
                CASE inflight.branch = "buy" ->
                         CancelTracked(World(NoCfg), inflight.sell_order, {})
                  [] inflight.branch = "sell" ->
                         CancelTracked(World(NoCfg), inflight.buy_order, {})
                  [] OTHER -> World(NoCfg))

NextSched ==
    \/ PassBegin
    \/ VisitBegin
    \/ VisitResume
    \/ \E c \in SchedConfigs : Yielded /\ Start(c, TRUE)
    \/ \E s \in Symbols : Yielded /\ Stop(s, {})
    \/ \E s \in Symbols : Yielded /\ Delete(s, {})
    \/ Yielded /\ StopAll({})
    \/ \E o \in openOrders : Fill(o)

SpecSched == Init /\ [][NextSched]_vars

(* The two computations of the engine on their own: grid placement around  *)
(* the price and volume of a tracked buy order, and the initial build at   *)
(* the price the ticker reported, for inputs drawn from the sets below.    *)
CalcRanges == {<<2, 10>>, <<3000, 3700>>}
CalcSpacings == {5, 500}
CalcCapitals == {80, 100000}
CalcPrices == {1, 2, 4, 6, 10, 12, 3350, 3400}
CalcVolumes == {0, 3, 8}

(* a strategy of symbol A after step 2 of _init_ (or a recovered one), its *)
(* position the venue's, its buy order one the venue no longer lists *)
CalcSymbolData(range, s, capital, direction, price, size, anchor) ==
    [NewSymbolData([NoCfg EXCEPT !.symbol = "A", !.min_price = range[1],
                                 !.max_price = range[2], !.direction = direction,
                                 !.grid_spacing = s,
                                 !.investment_amount = capital, !.leverage = 1])
     EXCEPT !.current_price = price,
            !.start_price = price,
            !.position = [id |-> IF size > 0 THEN 1 ELSE NoneId, size |-> size],
            !.buy_order = [id |-> 1, price |-> anchor, volume |-> 5]]

InitCalc ==
    /\ \E range \in CalcRanges, s \in CalcSpacings, capital \in CalcCapitals,
          direction \in {"long", "short"}, price \in CalcPrices,
          size \in CalcVolumes, anchor \in CalcPrices :
           /\ symbols = [x \in {"A"} |->
                  CalcSymbolData(range, s, capital, direction, price, size, anchor)]
           /\ pos = [x \in Symbols |->
                  IF x = "A" /\ size > 0 THEN [id |-> 1, size |-> size]
                  ELSE [id |-> NoneId, size |-> 0]]
    /\ keys = <<"A">>
    /\ cfgFile = <<>>
    /\ csvFile = <<>>
    /\ openOrders = {}
    /\ closedOrders = <<>>
    /\ nextOrderId = 2
    /\ nextPosId = 2
    /\ faults = 0
    /\ restarts = 0
    /\ loop = "running"
    /\ pending = <<>>
    /\ inflight = NoTick
    /\ tradingCache = NoCache
    /\ now = 0
    /\ starting = <<>>
    /\ ev = Event("new", "", "ok", NoCalls, "none", "-")

CalcCommit(op, w) ==
    /\ symbols' = [symbols EXCEPT !["A"] = w.sd]
    /\ Commit(w)
    /\ ev' = Event(op, "A", "ok", w, "none", "-")
    /\ UNCHANGED <<keys, faults, restarts, loop, pending, inflight,
                   tradingCache, now, starting>>

(* _place_grid_orders at the price and volume of the tracked buy order, as *)
(* check_order calls it when that order has filled *)
CalcPlace ==
    CalcCommit("place",
               _place_grid_orders(World(symbols["A"]), "A",
                                  symbols["A"].buy_order.price,
                                  symbols["A"].buy_order.volume, {}))

(* _initial_build_position, as step 3 of _init_ calls it *)
CalcBuild ==
    /\ ~symbols["A"]._initialized
    /\ ev.op = "new"
    /\ CalcCommit("build", _initial_build_position(World(symbols["A"]), "A", {}))

NextCalc == CalcPlace \/ CalcBuild

SpecCalc == InitCalc /\ [][NextCalc]_vars

(* The trading-hours gate of run() for stock contracts on its own: calls   *)
(* of is_us_stock_trading_hours while the clock advances by half hours,    *)
(* against a venue whose status endpoint answers open or closed, with or   *)
(* without the time of the next session, the market-closed code, or fails. *)
Hour == 3600
MaxHours == 3

(* the startTradeTime the venue may report, None included *)
ReopenTimes == {NoneNum, Hour + Hour \div 2, 2 * Hour}

(* _fetch_trading_status_from_api: None for a failed request *)
ApiFailed == [code |-> NoneNum, is_trade |-> "none", start_trade_time |-> NoneNum]

(* _fetch_trading_status_from_api: the market-closed code, {"code": 6005} *)
ApiClosed == [code |-> 6005, is_trade |-> "none", start_trade_time |-> NoneNum]

ApiResults ==
    {ApiFailed, ApiClosed} \cup
    {[code |-> 0, is_trade |-> b, start_trade_time |-> t] :
        b \in {"true", "false"}, t \in ReopenTimes}

(* the cache is used while current_time is before last_update_time *)
CacheValid(cache, current_time) ==
    /\ cache.is_trade # "none"
    /\ cache.start_trade_time # NoneNum
    /\ current_time < cache.last_update_time

(* api_result.get("is_trade", False) *)
ApiIsTrade(api) == IF api.is_trade = "none" THEN "false" ELSE api.is_trade

(* the cache after a query the venue answered *)
UpdatedCache(api, current_time) ==
    [is_trade |-> ApiIsTrade(api),
     start_trade_time |-> api.start_trade_time,
     last_update_time |-> IF ApiIsTrade(api) = "true"
                          THEN current_time + Hour
                          ELSE api.start_trade_time]

(* is_us_stock_trading_hours: api is what the venue would answer, fallback *)
(* what _fallback_trading_hours_check would return *)
is_us_stock_trading_hours(cache, current_time, api, fallback) ==
    IF CacheValid(cache, current_time)
    THEN [cache |-> cache, result |-> cache.is_trade, query |-> "cached"]
    ELSE IF api # ApiFailed
    THEN [cache |-> UpdatedCache(api, current_time),
          result |-> ApiIsTrade(api), query |-> "fresh"]
    ELSE [cache |-> cache,
          result |-> IF cache.is_trade # "none" THEN cache.is_trade ELSE fallback,
          query |-> "failed"]

(* run(): the gate is evaluated for a stock contract *)
Gate(api, fallback) ==
    /\ tradingCache'
           = is_us_stock_trading_hours(tradingCache, now, api, fallback).cache
    /\ ev' = Event("gate", "",
                   is_us_stock_trading_hours(tradingCache, now, api, fallback).result,
                   NoCalls, "none",
                   is_us_stock_trading_hours(tradingCache, now, api, fallback).query)
    /\ UNCHANGED <<symbols, keys, cfgFile, csvFile, openOrders, closedOrders,
                   pos, nextOrderId, nextPosId, faults, restarts, loop, pending,
                   inflight, now, starting>>

(* _execute_order: an order the venue answers with the market-closed code  *)
(* resets the cache *)
MarketClosedOrder ==
    /\ tradingCache' = [tradingCache EXCEPT !.last_update_time = 0,
                                            !.is_trade = "false"]
    /\ ev' = Event("order_closed", "", "ok", NoCalls, "none", "-")
    /\ UNCHANGED <<symbols, keys, cfgFile, csvFile, openOrders, closedOrders,
                   pos, nextOrderId, nextPosId, faults, restarts, loop, pending,
                   inflight, now, starting>>

(* half an hour passes *)
Advance ==
    /\ now < MaxHours * Hour
    /\ now' = now + Hour \div 2
    /\ ev' = Event("clock", "", "ok", NoCalls, "none", "-")
    /\ UNCHANGED <<symbols, keys, cfgFile, csvFile, openOrders, closedOrders,
                   pos, nextOrderId, nextPosId, faults, restarts, loop, pending,
                   inflight, tradingCache, starting>>

NextHours ==
    \/ \E api \in ApiResults, fallback \in {"true", "false"} : Gate(api, fallback)
    \/ MarketClosedOrder
    \/ Advance

SpecHours == Init /\ [][NextHours]_vars

(* The scheduler with its trading-hours gate: one symbol, started as a     *)
(* stock contract or as a crypto contract, ticks while the clock advances, *)
(* against an adapter that does not fail.                                  *)
GateConfigs ==
    { [symbol |-> "A", min_price |-> 2, max_price |-> 10, direction |-> "long",
       grid_spacing |-> 500, investment_amount |-> 40, leverage |-> 2,
       asset_type |-> a] : a \in {"stock", "crypto"} }

(* what the status endpoint answers in this specification *)
GateApiResults ==
    {ApiFailed, ApiClosed, [code |-> 0, is_trade |-> "true", start_trade_time |-> 2 * Hour],
     [code |-> 0, is_trade |-> "false", start_trade_time |-> 2 * Hour]}

(* a gate that lets every tick through *)
GateOpen_always(is_trading) == TRUE

(* run(): if is_trading *)
GateOpen(is_trading) == is_trading = "true"

(* run(): not in trading hours, nothing is done for the symbol *)
TickClosed(s) ==
    /\ ev' = Event("tick", s, "closed", NoCalls, "none", "-")
    /\ UNCHANGED <<symbols, cfgFile, csvFile, openOrders, closedOrders, pos,
                   nextOrderId, nextPosId>>

(* one pass of the body of the run() loop for a stock contract whose       *)
(* _status is set: the gate, then _init_ and check_order when it is open *)
TickGated(s, f, api, fallback) ==
    /\ s \in DOMAIN symbols
    /\ symbols[s]._status
    /\ symbols[s].co_type = 1
    /\ loop = "running"
    /\ Spend(f)
    /\ tradingCache'
           = is_us_stock_trading_hours(tradingCache, now, api, fallback).cache
    /\ UNCHANGED <<keys, restarts, loop, pending, inflight, now, starting>>
    /\ IF GateOpen(is_us_stock_trading_hours(tradingCache, now, api, fallback).result)
       THEN TickCommit(s, RunSymbol(World(symbols[s]), s, f),
                       ~symbols[s]._initialized)
       ELSE TickClosed(s)

NextGate ==
    \/ \E c \in GateConfigs : Start(c, TRUE)
    \/ \E s \in Traded : Tick(s, {})
    \/ \E s \in Traded, api \in GateApiResults, fallback \in {"true", "false"} :
           TickGated(s, {}, api, fallback)
    \/ \E s \in Traded : Delete(s, {})
    \/ \E o \in openOrders : Fill(o)
    \/ Advance

SpecGate == Init /\ [][NextGate]_vars

(* The scheduler against an adapter whose order calls fail: in one tick    *)
(* the venue refuses a cancellation or a submission, or the call raises    *)
(* before its request is sent.                                             *)
OrderFaultKinds ==
    { "init_cancel", "init_cancel_raise", "build_market", "buy_rejected",
      "buy_error", "sell_rejected", "sell_error", "chk_cancel",
      "chk_cancel_raise" }

OrderFaultSets == {{}} \cup {{k} : k \in OrderFaultKinds}

OrderConfigs ==
    { [symbol |-> "A", min_price |-> 2, max_price |-> 10, direction |-> d,
       grid_spacing |-> 500, investment_amount |-> 40, leverage |-> 2] :
      d \in {"long", "short"} }

NextOrders ==
    \/ \E c \in OrderConfigs : Start(c, TRUE)
    \/ \E s \in Traded, f \in OrderFaultSets : Tick(s, f)
    \/ \E s \in Traded : Stop(s, {})
    \/ \E s \in Traded : Delete(s, {})
    \/ \E o \in openOrders : Fill(o)

SpecOrders == Init /\ [][NextOrders]_vars

(* start() as the event loop runs it: the call is suspended in its adapter *)
(* calls (set_leverage, fetch_account, fetch_positions) between the checks *)
(* of its parameters and the balance check, and other handlers and the     *)
(* scheduler run meanwhile.  A long and a short grid for the same symbol.  *)
MaxStarting == 2    \* start() calls suspended at the same time

StartConfigs ==
    { [symbol |-> "A", min_price |-> 2, max_price |-> 10, direction |-> d,
       grid_spacing |-> 500, investment_amount |-> 40, leverage |-> 2] :
      d \in {"long", "short"} }

(* start() up to its first adapter call: the check of self.symbols and of  *)
(* the fields; a call that passes them is suspended *)
StartBegin(c) ==
    /\ Len(starting) < MaxStarting
    /\ starting' = IF AlreadyRegistered(symbols, c.symbol) \/ ~ValidParams(c)
                   THEN starting ELSE Append(starting, c)
    /\ ev' = Event("start_begin", c.symbol,
                   IF AlreadyRegistered(symbols, c.symbol) \/ ~ValidParams(c)
                   THEN "failed" ELSE "suspended",
                   NoCalls, "none",
                   IF AlreadyRegistered(symbols, c.symbol) THEN "exists"
                   ELSE IF ~ValidParams(c) THEN "params" ELSE "")
    /\ UNCHANGED <<symbols, keys, cfgFile, csvFile, openOrders, closedOrders,
                   pos, nextOrderId, nextPosId, faults, restarts, loop, pending,
                   inflight, tradingCache, now>>

(* self.symbols[symbol] = symbol_data *)
Registered(syms, c) ==
    [s \in DOMAIN syms \cup {c.symbol} |->
        IF s = c.symbol THEN NewSymbolData(c) ELSE syms[s]]

(* start() from the return of its last adapter call: the balance check,    *)
(* the registration and the result; i is the suspended call that resumes *)
StartEnd(i, funds_ok) ==
    /\ i \in 1..Len(starting)
    /\ starting' = SubSeq(starting, 1, i - 1) \o SubSeq(starting, i + 1, Len(starting))
    /\ symbols' = IF funds_ok THEN Registered(symbols, starting[i]) ELSE symbols
    /\ keys' = IF funds_ok /\ starting[i].symbol \notin DOMAIN symbols
               THEN Append(keys, starting[i].symbol) ELSE keys
    /\ ev' = Event("start", starting[i].symbol,
                   IF funds_ok THEN "success" ELSE "failed", NoCalls, "none",
                   IF funds_ok THEN "" ELSE "funds")
    /\ UNCHANGED <<cfgFile, csvFile, openOrders, closedOrders, pos,
                   nextOrderId, nextPosId, faults, restarts, loop, pending,
                   inflight, tradingCache, now>>

NextStart ==
    \/ \E c \in StartConfigs : StartBegin(c)
    \/ \E i \in 1..MaxStarting, funds_ok \in BOOLEAN : StartEnd(i, funds_ok)
    \/ \E s \in Traded : Tick(s, {})
    \/ \E s \in Traded : Stop(s, {})
    \/ \E o \in openOrders : Fill(o)

SpecStart == Init /\ [][NextStart]_vars

(* The engine under its scheduling: run() visits every strategy whose      *)
(* _status is set once a second until its task is cancelled, so a tick     *)
(* that can change the state is eventually taken.  A valid grid, and a     *)
(* grid so narrow that both prices of the first pair lie outside of it;    *)
(* in one tick both submissions of the pair may return nothing.            *)
LiveConfigs ==
    { [symbol |-> "A", min_price |-> 2, max_price |-> 10, direction |-> "long",
       grid_spacing |-> 500, investment_amount |-> 40, leverage |-> 2],
      [symbol |-> "A", min_price |-> 3, max_price |-> 5, direction |-> "long",
       grid_spacing |-> 500, investment_amount |-> 40, leverage |-> 2] }

LiveFaultSets == {{}, {"buy_error", "sell_error"}}

NextLive ==
    \/ \E c \in LiveConfigs : Start(c, TRUE)
    \/ \E s \in Traded, f \in LiveFaultSets : Tick(s, f)
    \/ \E s \in Traded : Stop(s, {})
    \/ StopAll({})
    \/ \E s \in Traded : Delete(s, {})
    \/ \E o \in openOrders : Fill(o)

SpecLive ==
    Init /\ [][NextLive]_vars /\ WF_vars(\E s \in Traded : Tick(s, {}))

----------------------------------------------------------------------------
(* Properties *)

(* C1: at every tick boundary the venue's open orders hold at most one     *)
(* resting buy and at most one resting sell for each symbol.  Fails: the   *)
(* buy-filled rule does not look at the result of cancel_order, so a       *)
(* cancellation the venue refuses leaves the old sell resting next to the  *)
(* new one. *)
C1_OneRestingPerSide ==
    \A s \in Symbols :
        /\ Cardinality({o \in openOrders : o.symbol = s /\ o.side = "buy"}) <= 1
        /\ Cardinality({o \in openOrders : o.symbol = s /\ o.side = "sell"}) <= 1

(* C2: in every reachable registry, a start() whose config has            *)
(* min_price >= max_price, or grid_spacing outside (0,1), or leverage      *)
(* outside (0,100] returns failed and returns the registry as it was. *)
C2_InvalidConfigRejected ==
    \A c \in Configs, funds_ok \in BOOLEAN :
        ( \/ c.min_price >= c.max_price
          \/ c.grid_spacing <= 0 \/ c.grid_spacing >= SpacingScale
          \/ c.leverage <= 0 \/ c.leverage > MaxLeverage )
        => /\ start(symbols, c, funds_ok).result = "failed"
           /\ start(symbols, c, funds_ok).symbols = symbols

(* C2 happens: a start was rejected for its fields while another symbol    *)
(* runs with tracked orders and a ledger *)
C2_Witness ==
    /\ ev.op = "start" /\ ev.result = "failed" /\ ev.note = "params"
    /\ ev.symbol \notin DOMAIN symbols
    /\ \E s \in DOMAIN symbols :
          /\ symbols[s]._status
          /\ symbols[s].buy_order # NoOrder
          /\ symbols[s].his_order # <<>>

(* C3: a start() for a symbol that is registered and not stopped returns   *)
(* failed and leaves the registered strategy (config, status, tracked      *)
(* orders, ledger) and the rest of the registry as it was. *)
C3_DuplicateStartRejected ==
    \A c \in Configs, funds_ok \in BOOLEAN :
        (c.symbol \in DOMAIN symbols /\ symbols[c.symbol]._status)
        => /\ start(symbols, c, funds_ok).result = "failed"
           /\ start(symbols, c, funds_ok).symbols = symbols

(* C3 happens: a start was rejected as a duplicate of a running strategy   *)
(* that tracks orders and has a ledger *)
C3_Witness ==
    /\ ev.op = "start" /\ ev.result = "failed" /\ ev.note = "exists"
    /\ ev.symbol \in DOMAIN symbols
    /\ symbols[ev.symbol]._status
    /\ symbols[ev.symbol].buy_order # NoOrder
    /\ symbols[ev.symbol].his_order # <<>>

(* C4 as stated: when both tracked orders are absent from the open orders  *)
(* in a steady-state tick, the engine submits exactly one buy and one sell *)
(* anchored at the price and volume of the most recent closed order and    *)
(* makes no cancel call.  Fails: a side whose price leaves the range is    *)
(* not submitted. *)
C4_ExactlyOnePair ==
    [][(ev'.op = "tick" /\ ev'.init = "none" /\ ev'.note = "both") =>
          LET sd == symbols[ev'.symbol]
              h == fetch_his_order([closed |-> closedOrders], ev'.symbol)
          IN /\ ev'.cancels = 0
             /\ h # <<>>
             /\ Len(ev'.subs) = 2
             /\ ev'.subs[1].side = "buy"
             /\ ev'.subs[1].volume = h[1].volume
             /\ ev'.subs[1].price
                    = (h[1].price * (SpacingScale - sd.grid_spacing)) \div SpacingScale
             /\ ev'.subs[2].side = "sell"
             /\ ev'.subs[2].price
                    = (h[1].price * (SpacingScale + sd.grid_spacing)) \div SpacingScale]_vars

(* C4: when both tracked orders are absent from the open orders in a       *)
(* steady-state tick, the engine makes no cancel call and submits, around  *)
(* the price P and volume V of the head of the closed orders: a buy at     *)
(* P*(1-s) of volume V when that price is at least min_price, then a sell  *)
(* at P*(1+s) of volume min(position size, V) when that price is at most   *)
(* max_price and the position is not empty; nothing when there is no       *)
(* closed order.  When an adapter call of the tick fails, it submits that  *)
(* (with the position it last saw) or nothing. *)
C4_BothFilledReanchor ==
    [][(ev'.op = "tick" /\ ev'.init = "none" /\ ev'.note = "both") =>
          LET s == ev'.symbol
              sd == symbols[s]
              h == fetch_his_order([closed |-> closedOrders], s)
              buys == IF h[1].price * (SpacingScale - sd.grid_spacing)
                             >= sd.min_price * SpacingScale
                      THEN <<[kind |-> "limit", side |-> "buy",
                              open_type |-> IF sd.direction = "long" THEN 1 ELSE 2,
                              price |-> (h[1].price * (SpacingScale - sd.grid_spacing))
                                            \div SpacingScale,
                              volume |-> h[1].volume, after |-> 0]>>
                      ELSE <<>>
              sells(p) == IF /\ h[1].price * (SpacingScale + sd.grid_spacing)
                                    <= sd.max_price * SpacingScale
                             /\ p.size > 0
                          THEN <<[kind |-> "limit", side |-> "sell",
                                  open_type |-> IF sd.direction = "long" THEN 2 ELSE 1,
                                  price |-> (h[1].price * (SpacingScale + sd.grid_spacing))
                                                \div SpacingScale,
                                  volume |-> IF p.size <= h[1].volume
                                             THEN p.size ELSE h[1].volume,
                                  after |-> 0]>>
                          ELSE <<>>
          IN /\ ev'.cancels = 0
             /\ IF h = <<>> THEN ev'.subs = <<>>
                ELSE IF faults' = faults THEN ev'.subs = buys \o sells(pos[s])
                ELSE ev'.subs \in {<<>>, buys \o sells(pos[s]),
                                   buys \o sells(sd.position)}]_vars

(* C4 happens: a steady-state tick of a run without faults found both      *)
(* tracked orders gone and submitted one order only *)
C4_Witness ==
    /\ ev.op = "tick" /\ ev.init = "none" /\ ev.note = "both"
    /\ faults = 0
    /\ ev.cancels = 0
    /\ Len(ev.subs) = 1

(* C5: a steady-state tick (check_order with its statistics pass) never    *)
(* lowers last_filled_time of its symbol. *)
C5_StatsWatermarkMonotone ==
    [][(ev'.op = "tick" /\ ev'.init = "none") =>
          symbols'[ev'.symbol].last_filled_time
              >= symbols[ev'.symbol].last_filled_time]_vars

(* C5 happens: after a steady-state tick that recorded a fill, the closed  *)
(* orders of the symbol are out of timestamp order and hold a filled order *)
(* older than the watermark *)
C5_Witness ==
    /\ ev.op = "tick" /\ ev.init = "none" /\ ev.result = "ok"
    /\ LET h == fetch_his_order([closed |-> closedOrders], ev.symbol)
           sd == symbols[ev.symbol]
       IN /\ sd.his_order # <<>>
          /\ sd.last_filled_time = sd.his_order[Len(sd.his_order)].timestamp
          /\ \E i, j \in 1..Len(h) :
                /\ i < j
                /\ h[i].status = "filled" /\ h[j].status = "filled"
                /\ h[i].timestamp < h[j].timestamp
                /\ h[i].timestamp < sd.last_filled_time

(* C6: no operation on a registered strategy lowers its last_filled_time   *)
(* (the restart step itself, which builds a new engine, is left out).      *)
(* Fails: step 5 of _init_ overwrites the watermark; for a recovered       *)
(* strategy whose closed-order fetch returns nothing it becomes 0. *)
C6_WatermarkNeverDecreases ==
    [][ev'.op # "restart" =>
          \A s \in DOMAIN symbols \cap DOMAIN symbols' :
              symbols'[s].last_filled_time >= symbols[s].last_filled_time]_vars

(* C7: a restart gives every strategy that was running and initialized,    *)
(* and is adopted, the config fields and the summary totals it had.        *)
(* Fails: the snapshot of a position id is written once, so a strategy     *)
(* started later on the same position is recovered with the first          *)
(* strategy's config. *)
C7_RecoveryRoundTrip ==
    [][ev'.op = "restart" =>
          \A s \in DOMAIN symbols \cap DOMAIN symbols' :
              (symbols[s]._status /\ symbols[s]._initialized) =>
                  /\ symbols'[s].min_price = symbols[s].min_price
                  /\ symbols'[s].max_price = symbols[s].max_price
                  /\ symbols'[s].direction = symbols[s].direction
                  /\ symbols'[s].grid_spacing = symbols[s].grid_spacing
                  /\ symbols'[s].investment_amount = symbols[s].investment_amount
                  /\ symbols'[s].leverage = symbols[s].leverage
                  /\ realized_pnl(symbols'[s].his_order)
                         = realized_pnl(symbols[s].his_order)
                  /\ grid_count(symbols'[s].his_order)
                         = grid_count(symbols[s].his_order)]_vars

C9_AdoptsOnlySnapshotted ==
    [][/\ ev'.op = "restart" =>
              \A s \in DOMAIN symbols' :
                  /\ pos[s].size > 0
                  /\ pos[s].id \in DOMAIN cfgFile
                  /\ cfgFile[pos[s].id].symbol = s
       /\ ev'.op # "fill" =>
              \A s \in Symbols \ DOMAIN symbols :
                  /\ {o \in openOrders' : o.symbol = s}
                         = {o \in openOrders : o.symbol = s}
                  /\ fetch_his_order([closed |-> closedOrders'], s)
                         = fetch_his_order([closed |-> closedOrders], s)]_vars

(* C9 happens: a restart found an open position whose id has no snapshot,  *)
(* while snapshots of other position ids exist, and did not register it *)
C9_Witness ==
    /\ ev.op = "restart"
    /\ cfgFile # <<>>
    /\ \E s \in Symbols :
          /\ pos[s].size > 0
          /\ pos[s].id \notin DOMAIN cfgFile
          /\ s \notin DOMAIN symbols

C11_StopLeavesNothingResting ==
    \A s \in DOMAIN symbols :
        (ev.op = "stop_all" \/ (ev.op = "stop" /\ ev.symbol = s)) =>
            /\ ~symbols[s]._status
            /\ symbols[s].buy_order = NoOrder
            /\ symbols[s].sell_order = NoOrder
            /\ {o \in openOrders : o.symbol = s} = {}

(* C12: stop submits no order, leaves the position as it is and leaves the *)
(* configuration snapshots and the ledger files unchanged.                 *)
C12_StopTouchesNoPositionNoFile ==
    [][ev'.op \in {"stop", "stop_all"} =>
          /\ ev'.subs = <<>>
          /\ nextOrderId' = nextOrderId
          /\ pos' = pos
          /\ cfgFile' = cfgFile
          /\ csvFile' = csvFile]_vars

(* a stop that cancelled a resting order of a strategy whose position is    *)
(* open and whose snapshot and ledger files exist *)
C12_Witness ==
    /\ ev.op = "stop"
    /\ ev.cancels > 0
    /\ pos[ev.symbol].size > 0
    /\ pos[ev.symbol].id \in DOMAIN cfgFile
    /\ pos[ev.symbol].id \in DOMAIN csvFile


(* C13: a check_order call that resumes after stop(symbol) has set the    *)
(* symbol Stopped submits no further order and records no tracked order,   *)
(* so that once both have finished the symbol has no resting order.        *)
C13_StoppedTickPlacesNothing ==
    [][(/\ ev'.op = "resume"
        /\ ev'.symbol \in DOMAIN symbols
        /\ ~symbols[ev'.symbol]._status) =>
          /\ ev'.subs = <<>>
          /\ symbols'[ev'.symbol].buy_order = symbols[ev'.symbol].buy_order
          /\ symbols'[ev'.symbol].sell_order = symbols[ev'.symbol].sell_order
          /\ {o \in openOrders' : o.symbol = ev'.symbol} = {}]_vars

(* C14: an exception raised while the loop processes one symbol leaves the *)
(* loop running and the symbols the pass has yet to visit pending, so that *)
(* they are processed in this pass and in later ones.                      *)
C14_ExceptionIsolated ==
    [][(ev'.op = "visit" /\ ev'.result \in {"error", "keyerror"}) =>
          /\ loop' = "running"
          /\ pending' = Tail(pending)]_vars

(* C15: the scheduler loop ends only by cancellation: run() never returns  *)
(* through its exception handler.                                          *)
C15_LoopExitsOnlyOnCancel == loop \in {"running", "cancelled"}

C17_BelowNotionalNeverInitialized ==
    \A s \in DOMAIN symbols :
        (symbols[s].total_capital * symbols[s].grid_spacing * symbols[s].min_price
             < MinOrderSize * SpacingScale
                   * (symbols[s].max_price - symbols[s].min_price)) =>
            /\ ~symbols[s]._initialized
            /\ symbols[s].buy_order = NoOrder
            /\ symbols[s].sell_order = NoOrder
            /\ (ev.op = "tick" /\ ev.symbol = s) =>
                   \A i \in 1..Len(ev.subs) : ev.subs[i].kind # "limit"

(* a tick of such a strategy that sent the market order of the build *)
C17_Witness ==
    /\ ev.op = "tick"
    /\ ev.init = "raised"
    /\ ev.subs # <<>>
    /\ ev.symbol \in DOMAIN symbols
    /\ symbols[ev.symbol].each_order_size # NoneNum

(* C18: once the initialization of a symbol has failed on the minimum      *)
(* notional, a later tick of the symbol does not run the initialization    *)
(* sequence again.                                                          *)
C18_FatalInitNotRetried ==
    [][(/\ ev.op = "tick"
        /\ ev.init = "raised"
        /\ ev'.op = "tick"
        /\ ev'.symbol = ev.symbol) => ev'.init = "none"]_vars

(* C19: grid placement at reference price P with spacing s submits the    *)
(* buy at P * (1 - s) and the sell at P * (1 + s); for P = 3400 and        *)
(* s = 0.005 the buy is at 3383 and the sell at 3417.                      *)
C19_PlacementPrices ==
    [][ev'.op = "place" =>
          /\ \A i \in 1..Len(ev'.subs) :
                /\ ev'.subs[i].kind = "limit"
                /\ ev'.subs[i].side = "buy" =>
                      /\ ev'.subs[i].price * SpacingScale
                             <= symbols["A"].buy_order.price
                                    * (SpacingScale - symbols["A"].grid_spacing)
                      /\ symbols["A"].buy_order.price
                                    * (SpacingScale - symbols["A"].grid_spacing)
                             < (ev'.subs[i].price + 1) * SpacingScale
                /\ ev'.subs[i].side = "sell" =>
                      /\ ev'.subs[i].price * SpacingScale
                             <= symbols["A"].buy_order.price
                                    * (SpacingScale + symbols["A"].grid_spacing)
                      /\ symbols["A"].buy_order.price
                                    * (SpacingScale + symbols["A"].grid_spacing)
                             < (ev'.subs[i].price + 1) * SpacingScale
          /\ (/\ symbols["A"].buy_order.price = 3400
              /\ symbols["A"].grid_spacing = 5
              /\ symbols["A"].min_price = 3000
              /\ symbols["A"].max_price = 3700
              /\ symbols["A"].position.size > 0) =>
                 /\ Len(ev'.subs) = 2
                 /\ ev'.subs[1].side = "buy" /\ ev'.subs[1].price = 3383
                 /\ ev'.subs[2].side = "sell" /\ ev'.subs[2].price = 3417]_vars

(* the placement of the example: a buy at 3383 and a sell at 3417 *)
C19_Witness ==
    /\ ev.op = "place"
    /\ Len(ev.subs) = 2
    /\ ev.subs[1].side = "buy" /\ ev.subs[1].price = 3383
    /\ ev.subs[2].side = "sell" /\ ev.subs[2].price = 3417

(* C20 as stated: the market order of the initial build has the volume     *)
(* total_capital * initial_ratio / current_price, initial_ratio from the   *)
(* clamped position ratio and the divisor the price the ticker reported,   *)
(* whether or not that price lies in [min_price, max_price].               *)
C20_BuildVolumeObservedPrice ==
    [][ev'.op = "build" =>
          \A i \in 1..Len(ev'.subs) :
              /\ ev'.subs[i].volume
                     * (symbols["A"].max_price - symbols["A"].min_price)
                     * symbols["A"].current_price
                   <= symbols["A"].total_capital
                        * (IF symbols["A"].direction = "long"
                           THEN symbols["A"].max_price
                                  - Max(symbols["A"].min_price,
                                        Min(symbols["A"].current_price,
                                            symbols["A"].max_price))
                           ELSE Max(symbols["A"].min_price,
                                    Min(symbols["A"].current_price,
                                        symbols["A"].max_price))
                                  - symbols["A"].min_price)
              /\ symbols["A"].total_capital
                        * (IF symbols["A"].direction = "long"
                           THEN symbols["A"].max_price
                                  - Max(symbols["A"].min_price,
                                        Min(symbols["A"].current_price,
                                            symbols["A"].max_price))
                           ELSE Max(symbols["A"].min_price,
                                    Min(symbols["A"].current_price,
                                        symbols["A"].max_price))
                                  - symbols["A"].min_price)
                   < (ev'.subs[i].volume + 1)
                       * (symbols["A"].max_price - symbols["A"].min_price)
                       * symbols["A"].current_price]_vars

(* C21: in a steady-state tick whose fetch_orders returned, when exactly   *)
(* one tracked order is absent from the open orders the engine makes one   *)
(* cancel call for the other tracked order (none when no other is tracked) *)
(* before any submission, and every order it then submits is a limit order *)
(* around the price and volume of the absent order; when neither is absent *)
(* it makes no cancel call and no submission.                              *)
C21_OneFilledCancelsThenReanchors ==
    [][(ev'.op = "tick" /\ ev'.init = "none" /\ ev'.note # "skip") =>
          LET sd == symbols[ev'.symbol]
              ids == {o.id : o \in {x \in openOrders : x.symbol = ev'.symbol}}
              bf == sd.buy_order # NoOrder /\ sd.buy_order.id \notin ids
              sf == sd.sell_order # NoOrder /\ sd.sell_order.id \notin ids
              gone == IF bf THEN sd.buy_order ELSE sd.sell_order
              other == IF bf THEN sd.sell_order ELSE sd.buy_order
          IN /\ (bf # sf) =>
                   /\ ev'.cancels = IF other # NoOrder THEN 1 ELSE 0
                   /\ (other # NoOrder /\ faults' = faults) =>
                          other.id \notin {o.id : o \in openOrders'}
                   /\ \A i \in 1..Len(ev'.subs) :
                          /\ ev'.subs[i].after = ev'.cancels
                          /\ ev'.subs[i].kind = "limit"
                          /\ ev'.subs[i].side = "buy" =>
                                /\ ev'.subs[i].price
                                       = (gone.price * (SpacingScale - sd.grid_spacing))
                                             \div SpacingScale
                                /\ ev'.subs[i].volume = gone.volume
                          /\ ev'.subs[i].side = "sell" =>
                                /\ ev'.subs[i].price
                                       = (gone.price * (SpacingScale + sd.grid_spacing))
                                             \div SpacingScale
                                /\ ev'.subs[i].volume <= gone.volume
             /\ (~bf /\ ~sf) => (ev'.cancels = 0 /\ ev'.subs = <<>>)]_vars

(* a steady-state tick that found one tracked order gone, cancelled the    *)
(* other and submitted a buy and a sell after the cancellation *)
C21_Witness ==
    /\ ev.op = "tick" /\ ev.init = "none" /\ ev.note \in {"buy", "sell"}
    /\ ev.cancels = 1
    /\ Len(ev.subs) = 2
    /\ ev.subs[1].after = 1 /\ ev.subs[2].after = 1

(* C22: a grid placement at reference price P and reference volume V       *)
(* submits a buy only when P * (1 - grid_spacing) >= min_price, submits a  *)
(* sell only when P * (1 + grid_spacing) <= max_price and the position     *)
(* size of the local snapshot is > 0, and the volume of the sell is        *)
(* min(position.size, V).                                                  *)
C22_PlacementGuards ==
    [][ev'.op = "place" =>
          \A i \in 1..Len(ev'.subs) :
              /\ ev'.subs[i].side = "buy" =>
                    /\ symbols["A"].buy_order.price
                           * (SpacingScale - symbols["A"].grid_spacing)
                         >= symbols["A"].min_price * SpacingScale
                    /\ ev'.subs[i].volume = symbols["A"].buy_order.volume
              /\ ev'.subs[i].side = "sell" =>
                    /\ symbols["A"].buy_order.price
                           * (SpacingScale + symbols["A"].grid_spacing)
                         <= symbols["A"].max_price * SpacingScale
                    /\ symbols["A"].position.size > 0
                    /\ ev'.subs[i].volume
                         = IF symbols["A"].position.size
                                <= symbols["A"].buy_order.volume
                           THEN symbols["A"].position.size
                           ELSE symbols["A"].buy_order.volume]_vars

(* a placement whose sell is cut down to a position smaller than the       *)
(* reference volume *)
C22_Witness ==
    /\ ev.op = "place"
    /\ Len(ev.subs) = 2
    /\ ev.subs[2].side = "sell"
    /\ ev.subs[2].volume = symbols["A"].position.size
    /\ ev.subs[2].volume < ev.subs[1].volume

(* C23: the initial build submits a market order only when the adapter     *)
(* reports zero position for the symbol, and a strategy submits at most    *)
(* one market order of the initial build over its life.  Fails: when       *)
(* fetch_positions fails in step 2 of _init_ the build goes by the empty   *)
(* local snapshot, and an initialization that is run again after a         *)
(* rejected market order submits another. *)
C23_BuildOnlyOnZeroPosition ==
    [][/\ ev'.op = "tick" =>
              \A i \in 1..Len(ev'.subs) :
                  ev'.subs[i].kind = "market" => pos[ev'.symbol].size = 0
       /\ \A s \in DOMAIN symbols' : symbols'[s].builds <= 1]_vars

(* C24: the initialized flag of a symbol becomes true only in a tick after *)
(* which the venue holds a position of the symbol and the symbol tracks a  *)
(* buy and a sell order the venue accepted; a tick in which the market     *)
(* order or a grid order failed leaves it uninitialized.  Fails: step 7 of *)
(* _init_ sets the flag whatever the build and the placement returned. *)
C24_InitializedOnlyAfterSuccess ==
    [][(/\ ev'.op = "tick"
        /\ ~symbols[ev'.symbol]._initialized
        /\ symbols'[ev'.symbol]._initialized) =>
          /\ pos'[ev'.symbol].size > 0
          /\ symbols'[ev'.symbol].buy_order # NoOrder
          /\ symbols'[ev'.symbol].buy_order.id # NoneId
          /\ symbols'[ev'.symbol].sell_order # NoOrder
          /\ symbols'[ev'.symbol].sell_order.id # NoneId]_vars

(* C25: after a steady-state check the local position snapshot is the      *)
(* position the venue held in that tick (when fetch_positions failed, the   *)
(* snapshot is left as it was: it is never changed by an inferred fill),   *)
(* and the sells of the tick are sized by the refreshed snapshot.          *)
C25_PositionRefreshed ==
    [][(ev'.op = "tick" /\ ev'.init = "none") =>
          /\ symbols'[ev'.symbol].position
                 \in {pos[ev'.symbol], symbols[ev'.symbol].position}
          /\ faults' = faults =>
                 symbols'[ev'.symbol].position = pos[ev'.symbol]
          /\ \A i \in 1..Len(ev'.subs) :
                 ev'.subs[i].side = "sell" =>
                     /\ symbols'[ev'.symbol].position.size > 0
                     /\ ev'.subs[i].volume <= symbols'[ev'.symbol].position.size]_vars

(* a steady-state tick without a failed call that found the buy order      *)
(* filled, so the position had grown since the last check, and sized a     *)
(* sell by the refreshed snapshot *)
C25_Witness ==
    /\ ev.op = "tick" /\ ev.init = "none" /\ ev.note = "buy"
    /\ faults = 0
    /\ symbols[ev.symbol].position = pos[ev.symbol]
    /\ symbols[ev.symbol].his_order # <<>>
    /\ \E i \in 1..Len(ev.subs) : ev.subs[i].side = "sell"

(* C26: a steady-state tick whose adapter calls succeed appends to the     *)
(* in-memory ledger exactly the filled closed orders of the symbol whose   *)
(* timestamp is greater than last_filled_time, in ascending timestamp      *)
(* order, and sets last_filled_time to the largest timestamp appended;     *)
(* the in-memory ledger is always sorted by timestamp.  Fails: with no     *)
(* position id in the local snapshot the pass raises on o.posId before it  *)
(* appends, and after the watermark reset of C6 the pass appends orders    *)
(* the ledger already holds. *)
C26_LedgerAppendsNewFillsSorted ==
    [][/\ (ev'.op = "tick" /\ ev'.init = "none" /\ ev'.note # "skip"
            /\ faults' = faults) =>
              LET old == symbols[ev'.symbol].his_order
                  new == symbols'[ev'.symbol].his_order
                  added == SubSeq(new, Len(old) + 1, Len(new))
                  fresh == {k \in 1..Len(closedOrders) :
                              /\ closedOrders[k].symbol = ev'.symbol
                              /\ closedOrders[k].status = "filled"
                              /\ closedOrders[k].timestamp
                                     > symbols[ev'.symbol].last_filled_time}
              IN /\ Len(new) >= Len(old)
                 /\ SubSeq(new, 1, Len(old)) = old
                 /\ Len(added) = Cardinality(fresh)
                 /\ {added[i].order_id : i \in 1..Len(added)}
                        = {closedOrders[k].id : k \in fresh}
                 /\ \A i, j \in 1..Len(added) :
                        i < j => added[i].timestamp <= added[j].timestamp
                 /\ symbols'[ev'.symbol].last_filled_time
                        = IF added = <<>>
                          THEN symbols[ev'.symbol].last_filled_time
                          ELSE added[Len(added)].timestamp
       /\ \A s \in DOMAIN symbols' :
              \A i, j \in 1..Len(symbols'[s].his_order) :
                  i < j => symbols'[s].his_order[i].timestamp
                              <= symbols'[s].his_order[j].timestamp]_vars

(* C27: the configuration snapshot of a position id is written at most     *)
(* once: no operation changes or removes a snapshot file that exists.      *)
C27_SnapshotWrittenOnce ==
    [][\A p \in DOMAIN cfgFile :
          p \in DOMAIN cfgFile' /\ cfgFile'[p] = cfgFile[p]]_vars

(* an initialization completed, and so persisted, for a strategy whose     *)
(* position id has the snapshot of an earlier strategy of another          *)
(* direction *)
C27_Witness ==
    /\ ev.op = "tick" /\ ev.init = "done"
    /\ symbols[ev.symbol].position.id \in DOMAIN cfgFile
    /\ cfgFile[symbols[ev.symbol].position.id].direction
           # symbols[ev.symbol].direction

(* C28: every configuration snapshot holds the computed total_capital and  *)
(* the computed each_order_size, never an empty value.  Fails: for a       *)
(* position the engine has just built the snapshot is written in step 3 of *)
(* _init_, before step 4 computes each_order_size. *)
C28_SnapshotHoldsDerivedFields ==
    \A p \in DOMAIN cfgFile :
        /\ cfgFile[p].total_capital # NoneNum
        /\ cfgFile[p].total_capital
               = cfgFile[p].investment_amount * cfgFile[p].leverage
        /\ cfgFile[p].each_order_size # NoneNum

(* C29: the ledger file of a position id begins with the header, which     *)
(* occurs nowhere else in it; a tick appends to it one row for every       *)
(* TradeRecord it appended to the in-memory ledger under that position id, *)
(* in the order of the appends; no operation rewrites or removes a row.    *)
C29_LedgerFileAppendOnly ==
    [][/\ \A p \in DOMAIN csvFile :
              /\ p \in DOMAIN csvFile'
              /\ Len(csvFile'[p]) >= Len(csvFile[p])
              /\ SubSeq(csvFile'[p], 1, Len(csvFile[p])) = csvFile[p]
       /\ \A p \in DOMAIN csvFile' :
              /\ csvFile'[p] # <<>>
              /\ csvFile'[p][1] = CsvHeader
              /\ \A i \in 2..Len(csvFile'[p]) : csvFile'[p][i] # CsvHeader
       /\ IF ev'.op = "tick"
          THEN LET old == symbols[ev'.symbol].his_order
                   new == symbols'[ev'.symbol].his_order
                   added == SubSeq(new, Len(old) + 1, Len(new))
               IN \A p \in DOMAIN csvFile' \cup {added[i].pos_id : i \in 1..Len(added)} :
                      /\ p \in DOMAIN csvFile'
                      /\ SubSeq(csvFile'[p],
                                (IF p \in DOMAIN csvFile THEN Len(csvFile[p]) ELSE 1) + 1,
                                Len(csvFile'[p]))
                           = SelectSeq(added, LAMBDA r : r.pos_id = p)
          ELSE csvFile' = csvFile]_vars

(* a tick that appended a row to a ledger file which already held one *)
C29_Witness ==
    /\ ev.op = "tick"
    /\ symbols[ev.symbol].position.id \in DOMAIN csvFile
    /\ Len(csvFile[symbols[ev.symbol].position.id]) >= 3
    /\ Len(symbols[ev.symbol].his_order) >= 2
    /\ csvFile[symbols[ev.symbol].position.id]
              [Len(csvFile[symbols[ev.symbol].position.id])]
           = symbols[ev.symbol].his_order[Len(symbols[ev.symbol].his_order)]
    /\ symbols[ev.symbol].last_filled_time
           = symbols[ev.symbol].his_order[Len(symbols[ev.symbol].his_order)].timestamp

(* C30: a call of the gate queries the venue only when no status is cached *)
(* or the recorded next-change time is reached; a query the venue answered *)
(* records as next-change time the reopen time the venue provided after a  *)
(* closed result and one hour later after an open result; a call in        *)
(* between returns the cached value.  Fails: the market-closed answer      *)
(* carries no reopen time, so none is recorded and every call queries. *)
C30_NoQueryBeforeNextChange ==
    [][ev'.op = "gate" =>
          /\ ev'.note \in {"fresh", "failed"} =>
                \/ tradingCache.is_trade = "none"
                \/ /\ tradingCache.last_update_time # NoneNum
                   /\ now >= tradingCache.last_update_time
          /\ ev'.note = "fresh" =>
                /\ tradingCache'.last_update_time # NoneNum
                /\ ev'.result = "true" =>
                       tradingCache'.last_update_time = now + Hour
                /\ ev'.result = "false" =>
                       tradingCache'.last_update_time
                           = tradingCache'.start_trade_time
          /\ ev'.note = "cached" => ev'.result = tradingCache.is_trade]_vars

(* C31: a tick of a stock contract for which the trading calendar reports  *)
(* the market closed runs neither the initialization nor the steady-state  *)
(* check and makes no adapter call: the strategy, the venue and the files  *)
(* are as they were; a tick of a symbol that is not a stock contract is    *)
(* never held back: it runs the initialization or the check.               *)
C31_ClosedMarketSkipsSymbol ==
    [][ev'.op = "tick" =>
          /\ ( /\ symbols[ev'.symbol].co_type = 1
               /\ tradingCache'.is_trade = "false" ) =>
                 /\ ev'.result = "closed"
                 /\ ev'.cancels = 0 /\ ev'.subs = <<>>
                 /\ ev'.init = "none" /\ ev'.note = "-"
                 /\ UNCHANGED <<symbols, cfgFile, csvFile, openOrders,
                                closedOrders, pos, nextOrderId, nextPosId>>
          /\ ev'.result = "closed" => symbols[ev'.symbol].co_type = 1
          /\ symbols[ev'.symbol].co_type # 1 =>
                 /\ ev'.result # "closed"
                 /\ ev'.init # "none" \/ ev'.note # "-"]_vars

(* a tick held back by the closed market for an initialized stock contract *)
(* whose tracked buy order the venue has filled: the check would have      *)
(* re-anchored the grid *)
C31_Witness ==
    /\ ev.op = "tick" /\ ev.result = "closed"
    /\ symbols[ev.symbol]._initialized
    /\ symbols[ev.symbol].buy_order # NoOrder
    /\ symbols[ev.symbol].buy_order.id \notin {o.id : o \in openOrders}
    /\ symbols[ev.symbol].sell_order.id \in {o.id : o \in openOrders}

(* C32: a tick never ends with the exception of an order submission or of  *)
(* an order cancellation: the failure of such a call is turned into a      *)
(* value inside _init_ and check_order.  Fails: check_order does not wrap  *)
(* its cancel_order calls, and cancel_order raises what the head of        *)
(* _request_api raises. *)
C32_OrderFailureNeverRaised ==
    ev.op = "tick" => ev.result # "cancel_error"

(* C33: the order value of a failed submission (no order id) is never      *)
(* stored as the tracked buy or sell order, and a tick infers as filled,   *)
(* and re-anchors on, only a tracked order that has an id.  Fails:         *)
(* _place_grid_orders stores whatever _execute_order returned that is not  *)
(* None, the failed OrderInfo included, and its id None is in no set of    *)
(* open order ids. *)
C33_FailedOrderNeverTracked ==
    [][/\ \A s \in DOMAIN symbols' :
              /\ symbols'[s].buy_order.id # NoneId
              /\ symbols'[s].sell_order.id # NoneId
       /\ (ev'.op = "tick" /\ ev'.init = "none") =>
              /\ ev'.note \in {"buy", "both"} =>
                     symbols[ev'.symbol].buy_order.id # NoneId
              /\ ev'.note \in {"sell", "both"} =>
                     symbols[ev'.symbol].sell_order.id # NoneId]_vars

(* C34: after a steady-state tick that re-anchored the grid, each side     *)
(* tracks an order submitted in that tick or no order: the order the tick  *)
(* inferred filled, or cancelled, is not kept as tracked.  Fails:          *)
(* _place_grid_orders assigns buy_order and sell_order only when a         *)
(* submission returned an order, and check_order never clears them. *)
C34_StaleOrderNotTracked ==
    [][(/\ ev'.op = "tick" /\ ev'.init = "none"
        /\ ev'.note \in {"buy", "sell", "both"}
        /\ ev'.result # "cancel_error") =>
          /\ \/ symbols'[ev'.symbol].buy_order = NoOrder
             \/ symbols'[ev'.symbol].buy_order # symbols[ev'.symbol].buy_order
          /\ \/ symbols'[ev'.symbol].sell_order = NoOrder
             \/ symbols'[ev'.symbol].sell_order # symbols[ev'.symbol].sell_order]_vars

(* C35: a start() call that returns success does not replace a strategy    *)
(* that is registered: of two calls for the same symbol that overlap, at   *)
(* most one returns success.  Fails: the symbol is looked up in the        *)
(* registry before the adapter calls and assigned after them, so both      *)
(* calls pass the check and the one that resumes last replaces the         *)
(* strategy of the other. *)
C35_OverlappingStartsRegisterOnce ==
    [][(ev'.op = "start" /\ ev'.result = "success") =>
          ev'.symbol \notin DOMAIN symbols]_vars

(* C36: no closed order is recorded twice: the in-memory ledger of a       *)
(* strategy holds an order id at most once, and so does every ledger       *)
(* file.  Fails: step 5 of _init_ overwrites the watermark (C6), and the   *)
(* statistics pass then appends the orders the ledger already holds. *)
C36_NoOrderRecordedTwice ==
    /\ \A s \in DOMAIN symbols :
           \A i, j \in 1..Len(symbols[s].his_order) :
               i # j => symbols[s].his_order[i].order_id
                           # symbols[s].his_order[j].order_id
    /\ \A p \in DOMAIN csvFile :
           \A i, j \in 2..Len(csvFile[p]) :
               i # j => csvFile[p][i].order_id # csvFile[p][j].order_id

(* C37: a tick whose initialization raised on the minimum order notional   *)
(* has submitted no order.  Fails: the check of step 4 follows the initial *)
(* build of step 3, which has sent its market order by then. *)
C37_NotionalCheckedBeforeBuild ==
    (ev.op = "tick" /\ ev.init = "raised") => ev.subs = <<>>

(* C38: stop() without a symbol is not the shutdown of the engine: a       *)
(* strategy that is Running, among them one that a start() after such a    *)
(* stop admitted, has the task of run() alive to initialize and process    *)
(* it.  The task is the only caller of _init_ and check_order and is       *)
(* created once, so a Running strategy without it is never processed.      *)
(* Fails: stop() without a symbol cancels the task, also when no strategy  *)
(* is registered, and start() does not create it again. *)
C38_StartAfterStopAllIsProcessed ==
    \A s \in DOMAIN symbols : symbols[s]._status => loop = "running"

(* C39: for either direction, every close-type order that                 *)
(* _place_grid_orders submits is submitted while the position is greater   *)
(* than 0 and for a volume within it.  Fails for direction short: its      *)
(* close-type order is the one of the buy block, which is guarded by the   *)
(* price range only and takes the whole order volume; the position guard   *)
(* and the cap are on the sell block, the open-type order of a short. *)
C39_CloseVolumeWithinPosition ==
    [][ev'.op = "place" =>
         \A i \in 1..Len(ev'.subs) :
             ev'.subs[i].open_type = 2 =>
                 /\ symbols["A"].position.size > 0
                 /\ ev'.subs[i].volume <= symbols["A"].position.size]_vars

(* C40: a Running, initialized symbol that tracks no order on either side  *)
(* attempts the placement of its pair again: no pass of run() over it      *)
(* leaves the symbol as it found it without having taken a resolution rule *)
(* of check_order (a pass that does is repeated by every later one, the    *)
(* venue holding no order of the symbol that could fill).  Fails:          *)
(* check_order infers a fill only from a tracked order, and _init_ is not  *)
(* run again. *)
C40_OrderlessSymbolPlacesAgain ==
    [][\A s \in DOMAIN symbols :
          ( /\ symbols[s]._status
            /\ symbols[s]._initialized
            /\ symbols[s].buy_order = NoOrder
            /\ symbols[s].sell_order = NoOrder
            /\ ev'.op = "tick"
            /\ ev'.symbol = s )
          => \/ ev'.note \in {"buy", "sell", "both"}
             \/ s \notin DOMAIN symbols'
             \/ symbols'[s] # symbols[s]]_vars

====
